---- MODULE Spec2Model ----
(***************************************************************************)
(* A model of DistX's indexing and retrieval engine: the Collection        *)
(* (primary map, HNSW index, BM25 index, batch / rebuild state machine),   *)
(* the HNSW graph with its contiguous vector arena, the BM25 inverted      *)
(* index, the payload filter and the background rebuild job.               *)
(*                                                                         *)
(* Conventions                                                             *)
(*  - Option<T> is a sequence of length 0 (None) or 1 (Some(x)).           *)
(*  - f32 values are fixed-point integers: vector components are in        *)
(*    tenths (3.0 is 30), products of two components (dot products,        *)
(*    similarities, HNSW distances) are in hundredths (1.0 is 100).        *)
(*    The vectors used have exact integer norms, so normalisation is       *)
(*    exact; f32 rounding is not modelled.                                 *)
(*  - Node indices are 0-based as in the code; sequences are 1-based, so   *)
(*    node i is nodes[i + 1].                                              *)
(*  - A HashMap iteration order is an arbitrary permutation, chosen by     *)
(*    the action that iterates.                                            *)
(*  - rand::random in select_layer is a nondeterministic choice of the     *)
(*    layer by the action that inserts.                                    *)
(***************************************************************************)
EXTENDS Integers, Sequences, FiniteSets, TLC

\* ------------------------------------------------------------------ bounds

\* Number of distinct point ids the clients use.
MaxIds == 2
\* Largest version a stored point may reach (caps the overwrite counter).
MaxVersion == 1
\* Largest `limit` passed to a search.
MaxLimit == 3
\* Largest number of nodes an HNSW graph may reach.
MaxNodes == 3
\* Largest number of points in one batch_upsert call.
MaxBatch == 2
\* Number of calls (client calls and worker jobs) in one explored history.
MaxCalls == 4
\* Highest layer a select_layer draw is taken to return.
MaxDrawnLayer == 1
\* Longest history of calls on a storage manager.
MaxManagerCalls == 6

\* --------------------------------------------------------- program constants

\* Collection::new builds HnswIndex::new(16, 3).
MAX_CONNECTIONS == 16
MAX_LAYERS == 3
EF_CONSTRUCTION == 200
\* search() default ef: (k + k/2).max(16).
MIN_EF == 16
\* Thresholds of the code, scaled down so that the model crosses them:
\* BRUTE_FORCE_THRESHOLD is 1000 in the code, HNSW_REBUILD_THRESHOLD 10000,
\* and HnswIndex::search skips the upper layers below 1000 nodes.
BRUTE_FORCE_THRESHOLD == 2
HNSW_REBUILD_THRESHOLD == 1
HNSW_SMALL_GRAPH == 3

\* Fixed point: 1.0 as a component, and 1.0 as a product of two components.
ONE1 == 10
ONE2 == 100
\* Stand-in magnitude for an f32 read outside the arena (see SearchLayer).
GARBAGE == 1000000

\* ------------------------------------------------------------------ helpers

None == <<>>
Some(x) == <<x>>
IsSome(o) == Len(o) = 1
Unwrap(o) == o[1]

Range(s) == {s[i] : i \in 1..Len(s)}

Max(a, b) == IF a >= b THEN a ELSE b
Min(a, b) == IF a <= b THEN a ELSE b

RECURSIVE SumSeq(_)
SumSeq(s) == IF s = <<>> THEN 0 ELSE Head(s) + SumSeq(Tail(s))

\* Sequences without repetition over all of S: the iteration orders of a map
\* whose key set is S.
Orders(S) ==
    {o \in [1..Cardinality(S) -> S] : \A i, j \in 1..Cardinality(S) : o[i] = o[j] => i = j}

\* Integer square root (f32 sqrt on the values used is exact or rounded down).
RECURSIVE ISqrtFrom(_, _)
ISqrtFrom(n, r) == IF (r + 1) * (r + 1) > n THEN r ELSE ISqrtFrom(n, r + 1)
ISqrt(n) == ISqrtFrom(n, 0)

\* ------------------------------------------------------------------ simd.rs

\* dot_product_simd: 0.0 when the lengths differ. Result in hundredths.
DotProduct(a, b) ==
    IF Len(a) # Len(b) THEN 0
    ELSE SumSeq([i \in 1..Len(a) |-> a[i] * b[i]])

\* norm_simd: sqrt of the sum of squares. Result in tenths.
Norm(v) == ISqrt(SumSeq([i \in 1..Len(v) |-> v[i] * v[i]]))

\* l2_distance_simd: +inf when the lengths differ. Result in tenths.
L2Distance(a, b) ==
    IF Len(a) # Len(b) THEN GARBAGE
    ELSE ISqrt(SumSeq([i \in 1..Len(a) |-> (a[i] - b[i]) * (a[i] - b[i])]))

\* ---------------------------------------------------------------- vector.rs

\* Vector::normalize: scale by 1/norm when norm > f32::EPSILON.
Normalize(v) ==
    LET n == Norm(v)
    IN  IF n > 0 THEN [i \in 1..Len(v) |-> (v[i] * ONE1) \div n] ELSE v

\* Vector::cosine_similarity. Result in hundredths.
CosineSimilarity(a, b) ==
    IF Len(a) # Len(b) THEN 0
    ELSE IF Norm(a) = 0 \/ Norm(b) = 0 THEN 0
    ELSE (DotProduct(a, b) * ONE2) \div (Norm(a) * Norm(b))

\* ----------------------------------------------------------------- point.rs

\* PointId's Display: the canonical string of an id. An id is a record
\* [kind, val]; Integer(1) and String("1") both print as "1".
IdToString(id) == id.val

\* The ids clients use, and their canonical strings (the decimal string of n
\* is represented by the number n).
PointIds == [kind : {"Integer", "String"}, val : 1..MaxIds]
IdStrs == {IdToString(id) : id \in PointIds}

\* ------------------------------------------------------------------ hnsw.rs

\* VisitedSet. A word of the bitmap has WordBits bits (64 in the code) and
\* the generation counter counts modulo GenerationModulus (2^64 in the code).
WordBits == 2
GenerationModulus == 4
Zeros(n) == [w \in 1..n |-> 0]
WordsFor(capacity) == (capacity + (WordBits - 1)) \div WordBits
Mask(bit_idx) == 2 ^ bit_idx
BitAnd(word, mask) == IF (word \div mask) % 2 = 1 THEN mask ELSE 0
BitOr(word, mask) == word + (mask - BitAnd(word, mask))

VisitedNew(capacity) ==
    [bits |-> Zeros(WordsFor(capacity)), generation |-> 1,
     generations |-> Zeros(WordsFor(capacity))]

\* clear when `self.generation += 1` does not overflow, or wraps to zero.
VisitedClearKeepsBitmap(v) ==
    [v EXCEPT !.generation = (v.generation + 1) % GenerationModulus]
VisitedClear(v) ==
    IF (v.generation + 1) % GenerationModulus = 0
    THEN [bits |-> Zeros(Len(v.bits)), generation |-> 1,
          generations |-> Zeros(Len(v.generations))]
    ELSE [v EXCEPT !.generation = v.generation + 1]

VisitedEnsureCapacity(v, capacity) ==
    IF WordsFor(capacity) > Len(v.bits)
    THEN [v EXCEPT !.bits = v.bits \o Zeros(WordsFor(capacity) - Len(v.bits)),
                   !.generations = v.generations \o Zeros(WordsFor(capacity) - Len(v.bits))]
    ELSE v

\* insert after its ensure_capacity: the word is zeroed when it is of an
\* older generation; the result is !was_set. Word w of the code is word
\* w + 1 here.
VisitedFresh(v, w) ==
    IF v.generations[w] # v.generation
    THEN [v EXCEPT !.bits[w] = 0, !.generations[w] = v.generation]
    ELSE v
VisitedSetBit(v, w, mask) ==
    [v |-> [v EXCEPT !.bits[w] = BitOr(v.bits[w], mask)],
     result |-> BitAnd(v.bits[w], mask) = 0]
VisitedInsert(v, idx) ==
    VisitedSetBit(VisitedFresh(VisitedEnsureCapacity(v, idx + 1), (idx \div WordBits) + 1),
                  (idx \div WordBits) + 1, Mask(idx % WordBits))

VisitedContains(v, idx) ==
    /\ (idx \div WordBits) + 1 <= Len(v.bits)
    /\ v.generations[(idx \div WordBits) + 1] = v.generation
    /\ BitAnd(v.bits[(idx \div WordBits) + 1], Mask(idx % WordBits)) # 0

\* HnswIndex::new. The VisitedSet is cleared at the start of every
\* search_layer, so it is a local of SearchLayer here.
HnswNew ==
    [nodes |-> <<>>, vectors |-> <<>>, dim |-> 0,
     point_id_to_index |-> [s \in IdStrs |-> None]]

\* get_vector reads vectors[start .. start + dim) unchecked.
ArenaInBounds(h, node_idx) == node_idx * h.dim + h.dim <= Len(h.vectors)
GetVector(h, node_idx) == [i \in 1..h.dim |-> h.vectors[node_idx * h.dim + i]]

\* distance_to_node: 1 - dot(query, node vector). A read outside the arena
\* is undefined behaviour: the value is arbitrary, oobLow chooses between a
\* value below and a value above every real distance.
DistanceToNode(h, query, node_idx, oobLow) ==
    IF ArenaInBounds(h, node_idx)
    THEN ONE2 - DotProduct(query, GetVector(h, node_idx))
    ELSE IF oobLow THEN 0 - GARBAGE ELSE GARBAGE

\* The heaps hold (idx, dist) pairs; an index enters at most once (visited).
MinDist(S) == CHOOSE d \in {c[2] : c \in S} : \A c \in S : d <= c[2]
MaxDist(S) == CHOOSE d \in {c[2] : c \in S} : \A c \in S : d >= c[2]
\* BinaryHeap::pop on the candidates (closest first) and on the results
\* (furthest first); among equal distances the smallest index.
PopMin(S) ==
    CHOOSE c \in S : c[2] = MinDist(S) /\ \A d \in S : d[2] = c[2] => c[1] <= d[1]
PopMax(S) ==
    CHOOSE c \in S : c[2] = MaxDist(S) /\ \A d \in S : d[2] = c[2] => c[1] <= d[1]

\* sort by distance ascending (ties by index).
RECURSIVE SortByDist(_)
SortFrom(S, first) == <<first>> \o SortByDist(S \ {first})
SortByDist(S) == IF S = {} THEN <<>> ELSE SortFrom(S, PopMin(S))

\* The inner loop of search_layer over one neighbour list (lines 281-303):
\* one unvisited neighbour n at distance dist.
VisitOne(s, ef, n, dist) ==
    LET s1     == [s EXCEPT !.visited = @ \cup {n}]
        pushed == s.results \cup {<<n, dist>>}
        rest   == pushed \ {PopMax(pushed)}
    IN  IF Cardinality(s.results) < ef \/ dist < s.worst
        THEN IF Cardinality(pushed) > ef
             THEN [s1 EXCEPT !.cands = @ \cup {<<n, dist>>},
                             !.results = rest,
                             !.worst = IF rest = {} THEN @ ELSE MaxDist(rest)]
             ELSE [s1 EXCEPT !.cands = @ \cup {<<n, dist>>},
                             !.results = pushed,
                             !.worst = IF dist > @ THEN dist ELSE @]
        ELSE s1
RECURSIVE VisitNeighbours(_, _, _, _, _, _, _)
VisitNeighbours(h, query, ef, nb, i, s, oobLow) ==
    IF i > Len(nb) THEN s
    ELSE VisitNeighbours(h, query, ef, nb, i + 1,
                         IF nb[i] \in s.visited THEN s
                         ELSE VisitOne(s, ef, nb[i],
                                       DistanceToNode(h, query, nb[i], oobLow)),
                         oobLow)

\* The neighbour list search_layer walks for node c at `layer`.
NeighboursAt(h, idx, layer) ==
    IF layer < Len(h.nodes[idx + 1].layers)
    THEN h.nodes[idx + 1].layers[layer + 1] ELSE <<>>

\* The outer loop of search_layer (lines 260-304). self.nodes[current_idx]
\* is bounds-checked: an index the arena read let through panics here.
RECURSIVE SearchLoop(_, _, _, _, _, _)
SearchFrom(h, query, ef, layer, s, c, oobLow) ==
    IF Cardinality(s.results) >= ef /\ c[2] > s.worst THEN s
    ELSE IF c[1] >= Len(h.nodes) THEN [s EXCEPT !.fault = TRUE]
    ELSE SearchLoop(h, query, ef, layer,
                    VisitNeighbours(h, query, ef, NeighboursAt(h, c[1], layer), 1,
                                    [s EXCEPT !.cands = @ \ {c}], oobLow),
                    oobLow)
SearchLoop(h, query, ef, layer, s, oobLow) ==
    IF s.cands = {} \/ s.fault THEN s
    ELSE SearchFrom(h, query, ef, layer, s, PopMin(s.cands), oobLow)

\* search_layer: up to ef (idx, dist) pairs, ascending by distance; fault
\* when it panics.
SearchStart(entry_point, d0) ==
    [cands |-> {<<entry_point, d0>>}, results |-> {<<entry_point, d0>>},
     visited |-> {entry_point}, worst |-> d0, fault |-> FALSE]
SearchDone(s) == [res |-> SortByDist(s.results), fault |-> s.fault]
SearchLayer(h, query, entry_point, ef, layer, oobLow) ==
    SearchDone(SearchLoop(h, query, ef, layer,
                          SearchStart(entry_point,
                                      DistanceToNode(h, query, entry_point, oobLow)),
                          oobLow))

\* The descent loops of insert (lines 352-359) and search (lines 430-437):
\* search_layer with ef = 1 from current_layer down to layer + 1.
RECURSIVE Descend(_, _, _, _, _)
DescendStep(h, query, current_layer, layer, r, oobLow) ==
    IF r.fault THEN [layer |-> current_layer, fault |-> TRUE]
    ELSE IF r.res # <<>>
    THEN Descend(h, query, current_layer - 1, layer, oobLow)
    ELSE [layer |-> current_layer, fault |-> FALSE]
Descend(h, query, current_layer, layer, oobLow) ==
    IF current_layer > layer
    THEN DescendStep(h, query, current_layer, layer,
                     SearchLayer(h, query, 0, 1, current_layer, oobLow), oobLow)
    ELSE [layer |-> current_layer, fault |-> FALSE]

\* Stable insertion of x into an already ordered sequence, with the
\* comparator of the pruning sort (lines 387-395): L2 distance to the
\* neighbour's vector when both indices are nodes, Equal otherwise.
PruneLess(h, v, a, b) ==
    /\ a < Len(h.nodes) /\ b < Len(h.nodes)
    /\ L2Distance(v, GetVector(h, a)) < L2Distance(v, GetVector(h, b))
RECURSIVE PruneInsert(_, _, _, _)
PruneInsert(h, v, sorted, x) ==
    IF sorted = <<>> THEN <<x>>
    ELSE LET last == sorted[Len(sorted)]
         IN  IF PruneLess(h, v, x, last)
             THEN PruneInsert(h, v, SubSeq(sorted, 1, Len(sorted) - 1), x) \o <<last>>
             ELSE sorted \o <<x>>
RECURSIVE PruneSort(_, _, _, _)
PruneSort(h, v, conns, i) ==
    IF i > Len(conns) THEN <<>>
    ELSE PruneInsert(h, v, PruneSort(h, v, conns, i + 1), conns[Len(conns) + 1 - i])

\* The back-edge loop of insert (lines 380-400).
PrunedConns(h, n, conns) ==
    IF Len(conns) > MAX_CONNECTIONS * 2
    THEN SubSeq(PruneSort(h, GetVector(h, n), conns, 1), 1, MAX_CONNECTIONS * 2)
    ELSE conns
RECURSIVE BackLinks(_, _, _, _, _)
BackLinks(h, neighbors, i, layer, node_idx) ==
    IF i > Len(neighbors) THEN h
    ELSE BackLinks(IF neighbors[i] < Len(h.nodes)
                      /\ layer < Len(h.nodes[neighbors[i] + 1].layers)
                   THEN [h EXCEPT !.nodes[neighbors[i] + 1].layers[layer + 1] =
                                      PrunedConns(h, neighbors[i], Append(@, node_idx))]
                   ELSE h,
                   neighbors, i + 1, layer, node_idx)

\* insert, lines 361-401: the new node takes up to max_connections of the
\* found candidates as its neighbours at `layer`, then the back edges.
FirstIndices(res, take) == [i \in 1..take |-> res[i][1]]
LinkNode(h1, point, layer, neighbors) ==
    BackLinks([h1 EXCEPT !.nodes = Append(@, [point |-> point,
                                              layers |-> [l \in 1..(layer + 1) |->
                                                  IF l = layer + 1 THEN neighbors ELSE <<>>]]),
                         !.point_id_to_index[IdToString(point.id)] = Some(Len(h1.nodes))],
              neighbors, 1, layer, Len(h1.nodes))
InsertLinked(h1, point, layer, down, found) ==
    IF down.fault \/ found.fault
    THEN [h |-> h1, fault |-> TRUE]
    ELSE [h |-> LinkNode(h1, point, layer,
                         FirstIndices(found.res, Min(Len(found.res), MAX_CONNECTIONS))),
          fault |-> FALSE]

\* HnswIndex::insert, with `layer` the value select_layer drew. It does not
\* look the id up: a point whose id is already in the graph gets a second
\* node, and point_id_to_index moves to the new one.
ArenaPush(h, point) ==
    [h EXCEPT !.dim = IF @ = 0 THEN Len(point.vector) ELSE @,
              !.vectors = @ \o point.vector]
InsertInto(h1, point, layer, oobLow) ==
    IF h1.nodes = <<>>
    THEN [h |-> [h1 EXCEPT !.nodes = <<[point |-> point,
                                        layers |-> [l \in 1..(layer + 1) |-> <<>>]]>>,
                           !.point_id_to_index[IdToString(point.id)] = Some(0)],
          fault |-> FALSE]
    ELSE InsertLinked(h1, point, layer,
                      Descend(h1, point.vector, MAX_LAYERS - 1, layer, oobLow),
                      SearchLayer(h1, point.vector, 0, EF_CONSTRUCTION, layer, oobLow))
HnswInsert(h, point, layer, oobLow) == InsertInto(ArenaPush(h, point), point, layer, oobLow)

\* HnswIndex::search: [res: sequence of (point, similarity), fault].
SearchEf(k, ef_opt) ==
    Max(IF IsSome(ef_opt) THEN Unwrap(ef_opt) ELSE Max(k + (k \div 2), MIN_EF), k)
SearchResults(h, k, down, found) ==
    IF down.fault \/ found.fault
       \/ \E i \in 1..Min(Len(found.res), k) : found.res[i][1] >= Len(h.nodes)
    THEN [res |-> <<>>, fault |-> TRUE]
    ELSE [res |-> [i \in 1..Min(Len(found.res), k) |->
                     [point |-> h.nodes[found.res[i][1] + 1].point,
                      score |-> ONE2 - found.res[i][2]]],
          fault |-> FALSE]
HnswSearch(h, query, k, ef_opt, oobLow) ==
    IF h.nodes = <<>> THEN [res |-> <<>>, fault |-> FALSE]
    ELSE SearchResults(h, k,
                       IF Len(h.nodes) < HNSW_SMALL_GRAPH
                       THEN [layer |-> 0, fault |-> FALSE]
                       ELSE Descend(h, query, MAX_LAYERS - 1, 0, oobLow),
                       SearchLayer(h, query, 0, SearchEf(k, ef_opt), 0, oobLow))

\* The index of the last node carrying id string s (remove re-inserts every
\* node's id in node order, so the last one wins).
LastIndexOf(nodes, s) ==
    LET hits == {i \in 1..Len(nodes) : IdToString(nodes[i].point.id) = s}
    IN  IF hits = {} THEN None
        ELSE Some((CHOOSE i \in hits : \A j \in hits : j <= i) - 1)

\* HnswIndex::remove: drops the node the map points at, shifts the arena and
\* the node list, rebuilds the map. Neighbour lists are left as they are.
HnswRemove(h, point_id) ==
    IF IsSome(h.point_id_to_index[point_id])
    THEN LET index == Unwrap(h.point_id_to_index[point_id])
             start == index * h.dim
             end == start + h.dim
             vectors1 == IF end <= Len(h.vectors)
                         THEN SubSeq(h.vectors, 1, start)
                              \o SubSeq(h.vectors, end + 1, Len(h.vectors))
                         ELSE h.vectors
             nodes1 == SubSeq(h.nodes, 1, index) \o SubSeq(h.nodes, index + 2, Len(h.nodes))
         IN  [h EXCEPT !.vectors = vectors1, !.nodes = nodes1,
                       !.point_id_to_index = [s \in IdStrs |-> LastIndexOf(nodes1, s)]]
    ELSE h

\* ------------------------------------------------------------------ bm25.rs

\* A text is a sequence of characters. The characters of the model:
\* letters, a blank, an ASCII comma, and "~~" standing for a non-ASCII symbol
\* (neither alphanumeric, nor whitespace, nor ASCII punctuation; 2 bytes).
ToLowercase(c) == CASE c = "A" -> "a" [] c = "B" -> "b" [] OTHER -> c
IsSeparator(c) == c \in {" ", ","}
IsAlphanumeric(c) == c \in {"a", "b", "A", "B"}
ByteLen(t) == SumSeq([i \in 1..Len(t) |-> IF t[i] = "~~" THEN 2 ELSE 1])

\* str::split on whitespace or ASCII punctuation: the pieces, empty ones too.
RECURSIVE SplitFrom(_, _, _)
SplitFrom(t, i, cur) ==
    IF i > Len(t) THEN <<cur>>
    ELSE IF IsSeparator(t[i]) THEN <<cur>> \o SplitFrom(t, i + 1, <<>>)
    ELSE SplitFrom(t, i + 1, Append(cur, t[i]))

\* str::trim_matches(not alphanumeric).
RECURSIVE TrimStart(_)
TrimStart(t) ==
    IF t # <<>> /\ ~IsAlphanumeric(Head(t)) THEN TrimStart(Tail(t)) ELSE t
RECURSIVE TrimEnd(_)
TrimEnd(t) ==
    IF t # <<>> /\ ~IsAlphanumeric(t[Len(t)])
    THEN TrimEnd(SubSeq(t, 1, Len(t) - 1)) ELSE t

\* BM25Index::tokenize.
Lowercase(text) == [i \in 1..Len(text) |-> ToLowercase(text[i])]
TrimAll(pieces) == [i \in 1..Len(pieces) |-> TrimEnd(TrimStart(pieces[i]))]
Tokenize(text) ==
    SelectSeq(TrimAll(SplitFrom(Lowercase(text), 1, <<>>)),
              LAMBDA tok : tok # <<>> /\ ByteLen(tok) > 1)

\* The texts clients send, and every term they can produce.
Texts ==
    { <<"a", "b">>, <<"A", "b", " ", "a", "b">>, <<"a", "b", ",", "b", "a">>,
      <<"a", " ", "~~", "b">> }
AllTerms == UNION {Range(Tokenize(t)) : t \in Texts}

\* BM25Index::new (k1 and b only enter the scores).
Bm25New ==
    [inverted_index |-> [t \in AllTerms |-> None],
     doc_lengths |-> [d \in IdStrs |-> None],
     term_dfs |-> [t \in AllTerms |-> None],
     total_docs |-> 0]

SaturatingSub1(n) == IF n > 0 THEN n - 1 ELSE 0

\* A posting list maps doc ids to term frequencies; 0 stands for no entry.
HasPosting(ix, term, doc_id) ==
    IsSome(ix.inverted_index[term]) /\ Unwrap(ix.inverted_index[term])[doc_id] > 0

\* BM25Index::delete_doc.
Bm25DeleteDoc(ix, doc_id) ==
    IF IsSome(ix.doc_lengths[doc_id])
    THEN LET terms_to_update == {t \in AllTerms : HasPosting(ix, t, doc_id)}
         IN  [inverted_index |->
                 [t \in AllTerms |->
                     IF IsSome(ix.inverted_index[t])
                     THEN Some([Unwrap(ix.inverted_index[t]) EXCEPT ![doc_id] = 0])
                     ELSE None],
              doc_lengths |-> [ix.doc_lengths EXCEPT ![doc_id] = None],
              term_dfs |->
                 [t \in AllTerms |->
                     IF t \in terms_to_update /\ IsSome(ix.term_dfs[t])
                     THEN Some(SaturatingSub1(Unwrap(ix.term_dfs[t])))
                     ELSE ix.term_dfs[t]],
              total_docs |-> SaturatingSub1(ix.total_docs)]
    ELSE ix

\* BM25Index::insert_doc: delete_doc first, then the postings of the tokens.
TermFreq(tokens, t) == Cardinality({i \in 1..Len(tokens) : tokens[i] = t})
Bm25AddDoc(old, doc_id, tokens) ==
    [inverted_index |->
        [t \in AllTerms |->
            IF t \in Range(tokens)
            THEN Some([(IF IsSome(old.inverted_index[t])
                        THEN Unwrap(old.inverted_index[t])
                        ELSE [d \in IdStrs |-> 0]) EXCEPT ![doc_id] = TermFreq(tokens, t)])
            ELSE old.inverted_index[t]],
     doc_lengths |-> [old.doc_lengths EXCEPT ![doc_id] = Some(Len(tokens))],
     term_dfs |->
        [t \in AllTerms |->
            IF t \in Range(tokens)
            THEN Some((IF IsSome(old.term_dfs[t]) THEN Unwrap(old.term_dfs[t]) ELSE 0) + 1)
            ELSE old.term_dfs[t]],
     total_docs |-> old.total_docs + 1]
Bm25InsertDocKeepsOld(ix, doc_id, text) == Bm25AddDoc(ix, doc_id, Tokenize(text))
Bm25InsertDoc(ix, doc_id, text) ==
    Bm25AddDoc(Bm25DeleteDoc(ix, doc_id), doc_id, Tokenize(text))

\* ---------------------------------------------------------------- filter.rs

\* JSON values: a leaf is a string (a character sequence) or a number; a
\* payload value is an object over Keys or something that is no object.
Keys == {"text", "category"}
JStr(chars) == [t |-> "str", s |-> chars, n |-> 0]
JNum(n) == [t |-> "num", s |-> <<>>, n |-> n]
JObject(f) == [isobj |-> TRUE, f |-> f]
JNonObject == [isobj |-> FALSE, f |-> [k \in Keys |-> None]]
\* serde_json Value::get(key) and Value::as_str.
JGet(value, key) == IF value.isobj THEN value.f[key] ELSE None
AsStr(leaf_opt) ==
    IF IsSome(leaf_opt) /\ Unwrap(leaf_opt).t = "str" THEN Some(Unwrap(leaf_opt).s) ELSE None
AsF64(leaf_opt) ==
    IF IsSome(leaf_opt) /\ Unwrap(leaf_opt).t = "num" THEN Some(Unwrap(leaf_opt).n) ELSE None

\* str::contains.
StrContains(hay, needle) ==
    \E i \in 0..(Len(hay) - Len(needle)) : SubSeq(hay, i + 1, i + Len(needle)) = needle

\* PayloadFilter::get_field_value: a field is [dotted, key]; a leading '.'
\* is stripped.
GetFieldValue(point, field) ==
    IF IsSome(point.payload) THEN JGet(Unwrap(point.payload), field.key) ELSE None

\* PayloadFilter::matches_condition.
RECURSIVE MatchesCondition(_, _)
MatchesCondition(c, point) ==
    CASE c.op = "Equals" ->
            LET v == GetFieldValue(point, c.field)
            IN  IF IsSome(v) THEN Unwrap(v) = c.value ELSE FALSE
      [] c.op = "NotEquals" ->
            LET v == GetFieldValue(point, c.field)
            IN  IF IsSome(v) THEN Unwrap(v) # c.value ELSE TRUE
      [] c.op = "GreaterThan" ->
            LET v == AsF64(GetFieldValue(point, c.field))
            IN  IF IsSome(v) THEN Unwrap(v) > c.value ELSE FALSE
      [] c.op = "LessThan" ->
            LET v == AsF64(GetFieldValue(point, c.field))
            IN  IF IsSome(v) THEN Unwrap(v) < c.value ELSE FALSE
      [] c.op = "GreaterEqual" ->
            LET v == AsF64(GetFieldValue(point, c.field))
            IN  IF IsSome(v) THEN Unwrap(v) >= c.value ELSE FALSE
      [] c.op = "LessEqual" ->
            LET v == AsF64(GetFieldValue(point, c.field))
            IN  IF IsSome(v) THEN Unwrap(v) <= c.value ELSE FALSE
      [] c.op = "Contains" ->
            LET v == AsStr(GetFieldValue(point, c.field))
            IN  IF IsSome(v) THEN StrContains(Unwrap(v), c.value) ELSE FALSE
      [] c.op = "And" -> \A i \in 1..Len(c.conditions) : MatchesCondition(c.conditions[i], point)
      [] c.op = "Or" -> \E i \in 1..Len(c.conditions) : MatchesCondition(c.conditions[i], point)
      [] c.op = "Not" -> ~MatchesCondition(c.condition, point)

\* Filter::matches on Option<&dyn Filter>: no filter matches everything.
FilterMatches(filter, point) ==
    IF IsSome(filter) THEN MatchesCondition(Unwrap(filter), point) ELSE TRUE

\* ------------------------------------------------------------ collection.rs

VARIABLES
    config,           \* CollectionConfig: vector_dim, distance, use_hnsw, enable_bm25;
                      \* rebuild_threshold is what HNSW_REBUILD_THRESHOLD stands at
    points,           \* primary map: id string -> Option<Point>
    hnsw,             \* Option<HnswIndex>
    bm25,             \* Option<BM25Index>
    hnsw_built,       \* the built latch
    hnsw_rebuilding,  \* the single-flight flag of the background rebuild
    batch_mode,
    pending_points,
    jobs,             \* the HnswRebuild queue of the background job system
    upserts,          \* history: successful upserts of an id since its last delete
    crashed,          \* a call panicked; the modelled run ends there
    ret,              \* the last call and what it returned
    pc,               \* concurrent clients: where each stands inside upsert
    loc,              \* concurrent clients: the locals of the upsert in progress
    calls,            \* history: number of calls made so far
    observed          \* concurrent reader: the versions its get calls returned

\* The storage manager of the process, its data directory and its saves.
VARIABLES
    collections,         \* StorageManager.collections: name -> Option<Arc<Collection>>
    aliases,             \* StorageManager.aliases: alias -> Option<collection name>
    BGSAVE_IN_PROGRESS,  \* the process-wide flag of persistence.rs
    children,            \* the forked save processes not yet reaped
    saver,               \* the periodic save thread: where it stands
    disk                 \* the data directory: dump.rdb, dump.version, dump.tmp, *.bak,
                         \* and the files under snapshots/

storageVars == <<collections, aliases, BGSAVE_IN_PROGRESS, children, saver, disk>>

\* What save() has done to the data directory so far.
VARIABLES
    saves         \* history: the snapshot of the last save that returned, and the
                  \* snapshot of a save the process died in, until the next start

\* The HnswRebuild worker of the background job system and its queue (the
\* queue itself is `jobs`).
VARIABLES
    running,      \* BackgroundWorker.running
    queue_mutex,  \* who holds the mutex of BackgroundWorker.jobs: "free" or a thread
    worker,       \* the worker thread: where it stands, the job it popped, its new_index
                  \* and the points it has still to insert
    executed      \* history: the numbers of the jobs whose execute returned

workerVars == <<running, queue_mutex, worker, executed>>

\* A VisitedSet of hnsw.rs next to the plain set it stands for.
VARIABLES
    visited,      \* VisitedSet: bits, generation, generations
    members,      \* history: the indices inserted since the last clear
    wrapped       \* history: the generation counter has wrapped

visitedVars == <<visited, members, wrapped>>

vars == <<visitedVars, saves, workerVars, storageVars, config, points, hnsw, bm25, hnsw_built, hnsw_rebuilding, batch_mode,
          pending_points, jobs, upserts, crashed, ret, pc, loc, calls, observed>>

\* The fields of one collection, left alone by the calls of the manager
\* that reach no collection of its own.
collectionVars == <<config, points, hnsw, bm25, hnsw_built, hnsw_rebuilding, batch_mode,
                    pending_points, jobs, upserts, crashed, observed>>

\* Collection and alias names.
Names == {"a", "b", "c"}

\* An empty data directory.
EmptyDir == [dump |-> None, version |-> FALSE, tmp |-> None, baks |-> {}, snapshots |-> {}]

\* StorageManager::new on an empty directory (lines 46-47: empty maps), the
\* flag as the static is initialised, no save under way.
InitStorage ==
    /\ collections = [n \in Names |-> None]
    /\ aliases = [n \in Names |-> None]
    /\ BGSAVE_IN_PROGRESS = FALSE
    /\ children = <<>>
    /\ saver = "sleep"
    /\ disk = EmptyDir
    /\ saves = [completed |-> None, attempted |-> None]

\* BackgroundWorker::new and the spawn of its thread (background.rs 35-42,
\* 81-85): running is true, the queue is empty, the thread is about to lock.
InitWorker ==
    /\ running = TRUE
    /\ queue_mutex = "free"
    /\ worker = [pc |-> "lock", job |-> None, new_index |-> None, rest |-> <<>>]
    /\ executed = <<>>

\* VisitedSet::new with room for VisitedCapacity indices (1024 in
\* HnswIndex::new, 100 in test_visited_set).
VisitedCapacity == 2
MaxIndex == 5
InitVisited ==
    /\ visited = VisitedNew(VisitedCapacity)
    /\ members = {}
    /\ wrapped = FALSE

\* The clients of the concurrent specification.
Threads == {"t1", "t2"}

\* The collection as one value, so that calls compose (batch_upsert calls
\* start_batch, upsert and end_batch).
Coll ==
    [points |-> points, hnsw |-> hnsw, bm25 |-> bm25, hnsw_built |-> hnsw_built,
     hnsw_rebuilding |-> hnsw_rebuilding, batch_mode |-> batch_mode,
     pending_points |-> pending_points, jobs |-> jobs, upserts |-> upserts,
     crashed |-> crashed]

Install(c) ==
    /\ points' = c.points
    /\ hnsw' = c.hnsw
    /\ bm25' = c.bm25
    /\ hnsw_built' = c.hnsw_built
    /\ hnsw_rebuilding' = c.hnsw_rebuilding
    /\ batch_mode' = c.batch_mode
    /\ pending_points' = c.pending_points
    /\ jobs' = c.jobs
    /\ upserts' = c.upserts
    /\ crashed' = c.crashed

\* Point::new leaves version 0 and no multivector; a caller may pass any
\* version.
MkPoint(id, version, vector, payload) ==
    [id |-> id, version |-> version, vector |-> vector, payload |-> payload,
     multivector |-> None]

Ok == [ok |-> TRUE, err |-> "", expected |-> 0, actual |-> 0]
InvalidDimension(expected, actual) ==
    [ok |-> FALSE, err |-> "InvalidDimension", expected |-> expected, actual |-> actual]
Panic == [ok |-> FALSE, err |-> "panic", expected |-> 0, actual |-> 0]

IdsOf(pts) == {s \in IdStrs : IsSome(pts[s])}
\* Collection::count.
Count == Cardinality(IdsOf(points))
\* Collection::get.
Get(id_str) == points[id_str]

\* Collection::new.
InitFields(cfg) ==
    /\ config = cfg
    /\ points = [s \in IdStrs |-> None]
    /\ hnsw = IF cfg.use_hnsw THEN Some(HnswNew) ELSE None
    /\ bm25 = IF cfg.enable_bm25 THEN Some(Bm25New) ELSE None
    /\ hnsw_built = FALSE
    /\ hnsw_rebuilding = FALSE
    /\ batch_mode = FALSE
    /\ pending_points = <<>>
    /\ jobs = <<>>
    /\ upserts = [s \in IdStrs |-> 0]
    /\ crashed = FALSE
    /\ ret = [op |-> "new"]
    /\ calls = 0
    /\ observed = <<>>
    /\ InitStorage
    /\ InitWorker
    /\ InitVisited

InitCollection(cfg) ==
    /\ InitFields(cfg)
    /\ pc = [t \in Threads |-> "idle"]
    /\ loc = [t \in Threads |-> None]

\* Collection::new as a value: the collection a manager holds under a name.
CollectionNew(cfg) ==
    [points |-> [s \in IdStrs |-> None],
     hnsw |-> IF cfg.use_hnsw THEN Some(HnswNew) ELSE None,
     bm25 |-> IF cfg.enable_bm25 THEN Some(Bm25New) ELSE None,
     hnsw_built |-> FALSE, hnsw_rebuilding |-> FALSE, batch_mode |-> FALSE,
     pending_points |-> <<>>, jobs |-> <<>>, upserts |-> [s \in IdStrs |-> 0],
     crashed |-> FALSE]

\* C4 mutant: the dimension check lets every vector through.
DimensionMismatchNever(cfg, point) == FALSE

\* upsert, lines 147-152: the dimension check.
DimensionMismatch(cfg, point) ==
    cfg.vector_dim > 0 /\ Len(point.vector) # cfg.vector_dim

\* C2 mutant: the version of an overwrite copies the stored one.
NewVersionKept(pts, id_str) ==
    IF IsSome(pts[id_str]) THEN Unwrap(pts[id_str]).version ELSE 0

\* upsert, lines 157-164: the version the point will carry.
NewVersion(pts, id_str) ==
    IF IsSome(pts[id_str]) THEN Unwrap(pts[id_str]).version + 1 ELSE 0

\* upsert, lines 189-190: payload.get("text").and_then(as_str).
TextOf(point) ==
    IF IsSome(point.payload) THEN AsStr(JGet(Unwrap(point.payload), "text")) ELSE None

\* upsert, lines 177-186: the HNSW part of a non-batch upsert.
Inserted(r) == [h |-> Some(r.h), fault |-> r.fault]
UpsertHnsw(h_opt, built, versioned_point, layer, oobLow) ==
    IF IsSome(h_opt) /\ built
    THEN Inserted(HnswInsert(Unwrap(h_opt),
                             [versioned_point EXCEPT !.vector = Normalize(@)],
                             layer, oobLow))
    ELSE [h |-> h_opt, fault |-> FALSE]

\* upsert, lines 188-195: the BM25 part of a non-batch upsert.
UpsertBm25(b_opt, versioned_point) ==
    IF IsSome(b_opt) /\ IsSome(TextOf(versioned_point))
    THEN Some(Bm25InsertDoc(Unwrap(b_opt), IdToString(versioned_point.id),
                            Unwrap(TextOf(versioned_point))))
    ELSE b_opt

UpsertBatchedIndexesText(c, versioned_point) ==
    [c EXCEPT !.points[IdToString(versioned_point.id)] = Some(versioned_point),
              !.pending_points = Append(@, versioned_point),
              !.bm25 = UpsertBm25(@, versioned_point),
              !.upserts[IdToString(versioned_point.id)] = @ + 1]

\* upsert, lines 166-175: the batch arm.
UpsertBatched(c, versioned_point) ==
    [c EXCEPT !.points[IdToString(versioned_point.id)] = Some(versioned_point),
              !.pending_points = Append(@, versioned_point),
              !.upserts[IdToString(versioned_point.id)] = @ + 1]

\* upsert, lines 177-198: graph, BM25, then the primary map. h is what the
\* HNSW part left.
UpsertStored(c, versioned_point, h) ==
    IF h.fault
    THEN [c |-> [c EXCEPT !.hnsw = h.h, !.crashed = TRUE], result |-> Panic]
    ELSE [c |-> [c EXCEPT !.hnsw = h.h,
                          !.bm25 = UpsertBm25(@, versioned_point),
                          !.points[IdToString(versioned_point.id)] = Some(versioned_point),
                          !.upserts[IdToString(versioned_point.id)] = @ + 1],
          result |-> Ok]

\* upsert after the dimension check, with the version set.
UpsertVersioned(c, versioned_point, layer, oobLow) ==
    IF c.batch_mode
    THEN [c |-> UpsertBatched(c, versioned_point), result |-> Ok]
    ELSE UpsertStored(c, versioned_point,
                      UpsertHnsw(c.hnsw, c.hnsw_built, versioned_point, layer, oobLow))

\* Collection::upsert on collection value c: [c, result].
UpsertF(cfg, c, point, layer, oobLow) ==
    IF DimensionMismatch(cfg, point)
    THEN [c |-> c, result |-> InvalidDimension(cfg.vector_dim, Len(point.vector))]
    ELSE UpsertVersioned(c, [point EXCEPT !.version =
                                 NewVersion(c.points, IdToString(point.id))],
                         layer, oobLow)

\* Collection::start_batch.
StartBatchF(c) == [c EXCEPT !.batch_mode = TRUE, !.pending_points = <<>>]

\* end_batch, line 217: whether a rebuild job is submitted. The threshold is
\* a constant of the code (10 000); the exploration fixes its scaled value in
\* config.rebuild_threshold.
SubmitsRebuild(c) ==
    /\ IsSome(c.hnsw)
    /\ Cardinality(IdsOf(c.points)) > config.rebuild_threshold
    /\ ~c.hnsw_rebuilding

\* points.values() when the map iterates in `order`.
PresentIn(pts, order) == SelectSeq(order, LAMBDA s : IsSome(pts[s]))
UnwrapAll(pts, present) == [i \in 1..Len(present) |-> Unwrap(pts[present[i]])]
PointsInOrder(pts, order) == UnwrapAll(pts, PresentIn(pts, order))

\* Collection::end_batch. The job carries the cloned points; the slot, the
\* latch and the flag it holds are this collection's.
EndBatchF(c, order) ==
    IF SubmitsRebuild(c)
    THEN [c EXCEPT !.batch_mode = FALSE,
                   !.hnsw_rebuilding = TRUE,
                   !.jobs = Append(@, [points |-> PointsInOrder(c.points, order)]),
                   !.pending_points = <<>>]
    ELSE [c EXCEPT !.batch_mode = FALSE, !.pending_points = <<>>]

\* Collection::batch_upsert: the first failing upsert returns early, without
\* end_batch.
RECURSIVE BatchLoop(_, _, _)
BatchStepSkipsFailure(cfg, r, rest) == BatchLoop(cfg, r.c, rest)
BatchStep(cfg, r, rest) == IF r.result.ok THEN BatchLoop(cfg, r.c, rest) ELSE r
BatchLoop(cfg, c, pts) ==
    IF pts = <<>> THEN [c |-> c, result |-> Ok]
    ELSE BatchStep(cfg, UpsertF(cfg, c, Head(pts), 0, FALSE), Tail(pts))
BatchEnd(r, order) ==
    IF r.result.ok THEN [c |-> EndBatchF(r.c, order), result |-> Ok] ELSE r
BatchUpsertF(cfg, c, pts, order) == BatchEnd(BatchLoop(cfg, StartBatchF(c), pts), order)

\* A full build: HnswIndex::new(16, 3), then insert of every point in the
\* given order (lines 405-408, 484-487, background.rs 183-186). The points
\* go in as they are stored: no build normalises.
RECURSIVE BuildIndex(_, _, _, _)
BuildStep(r, pts, layers, oobLow) ==
    IF r.fault THEN r ELSE BuildIndex(r.h, pts, layers, oobLow)
BuildIndex(h, pts, layers, oobLow) ==
    IF pts = <<>> THEN [h |-> h, fault |-> FALSE]
    ELSE BuildStep(HnswInsert(h, Head(pts), Head(layers), oobLow),
                   Tail(pts), Tail(layers), oobLow)

\* The build of prewarm_index (lines 400-411) and of search (lines 479-490):
\* only when the latch is down and the primary map is not empty.
BuildInstalled(c, b) ==
    IF b.fault
    THEN [c EXCEPT !.hnsw = Some(b.h), !.crashed = TRUE]
    ELSE [c EXCEPT !.hnsw = Some(b.h), !.hnsw_built = TRUE]
LazyBuildF(c, order, layers, oobLow) ==
    IF IsSome(c.hnsw) /\ ~c.hnsw_built /\ IdsOf(c.points) # {}
    THEN BuildInstalled(c, BuildIndex(HnswNew, PointsInOrder(c.points, order),
                                      layers, oobLow))
    ELSE c

\* Collection::prewarm_index.
PrewarmIndexF(c, order, layers, oobLow) == LazyBuildF(c, order, layers, oobLow)

\* Collection::batch_upsert_with_prewarm.
Prewarmed(w) == [c |-> w, result |-> IF w.crashed THEN Panic ELSE Ok]
PrewarmAfter(r, prewarm, order, layers, oobLow) ==
    IF r.result.ok /\ prewarm
    THEN Prewarmed(PrewarmIndexF(r.c, order, layers, oobLow))
    ELSE r
BatchUpsertWithPrewarmF(cfg, c, pts, prewarm, order, layers, oobLow) ==
    PrewarmAfter(BatchUpsertF(cfg, c, pts, order), prewarm, order, layers, oobLow)

\* Collection::delete: [c, found].
DeleteF(c, id_str) ==
    [c |-> [c EXCEPT !.hnsw = IF IsSome(@) THEN Some(HnswRemove(Unwrap(@), id_str)) ELSE @,
                     !.bm25 = IF IsSome(@) THEN Some(Bm25DeleteDoc(Unwrap(@), id_str)) ELSE @,
                     !.points[id_str] = None,
                     !.upserts[id_str] = 0],
     found |-> IsSome(c.points[id_str])]

\* Collection::set_payload: merge into an object payload, or set it when
\* the point has none. [c, found].
MergeObjects(existing, payload) ==
    IF existing.isobj /\ payload.isobj
    THEN Some(JObject([k \in Keys |->
                 IF IsSome(payload.f[k]) THEN payload.f[k] ELSE existing.f[k]]))
    ELSE Some(existing)
MergePayload(existing_opt, payload) ==
    IF IsSome(existing_opt) THEN MergeObjects(Unwrap(existing_opt), payload)
    ELSE Some(payload)
SetPayloadF(c, id_str, payload) ==
    IF IsSome(c.points[id_str])
    THEN [c |-> [c EXCEPT !.points[id_str][1].payload = MergePayload(@, payload)],
          found |-> TRUE]
    ELSE [c |-> c, found |-> FALSE]

\* Collection::overwrite_payload.
OverwritePayloadF(c, id_str, payload) ==
    IF IsSome(c.points[id_str])
    THEN [c |-> [c EXCEPT !.points[id_str][1].payload = Some(payload)], found |-> TRUE]
    ELSE [c |-> c, found |-> FALSE]

\* Collection::delete_payload_keys.
RemoveKeys(existing_opt, keys) ==
    IF IsSome(existing_opt) /\ Unwrap(existing_opt).isobj
    THEN Some(JObject([k \in Keys |->
                 IF k \in keys THEN None ELSE Unwrap(existing_opt).f[k]]))
    ELSE existing_opt
DeletePayloadKeysF(c, id_str, keys) ==
    IF IsSome(c.points[id_str])
    THEN [c |-> [c EXCEPT !.points[id_str][1].payload = RemoveKeys(@, keys)],
          found |-> TRUE]
    ELSE [c |-> c, found |-> FALSE]

\* Collection::clear_payload.
ClearPayloadF(c, id_str) ==
    IF IsSome(c.points[id_str])
    THEN [c |-> [c EXCEPT !.points[id_str][1].payload = None], found |-> TRUE]
    ELSE [c |-> c, found |-> FALSE]

\* Collection::update_vector: no dimension check, no look at the latch or at
\* batch_mode; the point goes into the graph as stored. [c, found].
VectorUpdated(c1, r) ==
    [c |-> [c1 EXCEPT !.hnsw = Some(r.h), !.crashed = r.fault], found |-> TRUE]
UpdateVectorF(c, id_str, vector, layer, oobLow) ==
    IF ~IsSome(c.points[id_str]) THEN [c |-> c, found |-> FALSE]
    ELSE IF ~IsSome(c.hnsw)
    THEN [c |-> [c EXCEPT !.points[id_str][1].vector = vector], found |-> TRUE]
    ELSE VectorUpdated([c EXCEPT !.points[id_str][1].vector = vector],
                       HnswInsert(HnswRemove(Unwrap(c.hnsw), id_str),
                                  [Unwrap(c.points[id_str]) EXCEPT !.vector = vector],
                                  layer, oobLow))

\* sort_by(|a, b| b.1.partial_cmp(&a.1)): stable, score descending.
RECURSIVE InsertDesc(_, _)
InsertDesc(sorted, x) ==
    IF sorted = <<>> THEN <<x>>
    ELSE IF x.score > sorted[Len(sorted)].score
    THEN InsertDesc(SubSeq(sorted, 1, Len(sorted) - 1), x) \o <<sorted[Len(sorted)]>>
    ELSE sorted \o <<x>>
RECURSIVE StableSortDesc(_)
StableSortDesc(xs) ==
    IF xs = <<>> THEN <<>>
    ELSE InsertDesc(StableSortDesc(SubSeq(xs, 1, Len(xs) - 1)), xs[Len(xs)])

Truncate(xs, limit) == SubSeq(xs, 1, Min(Len(xs), limit))

\* C8 mutant: the scans take every point, whatever the filter.
MatchingAll(pts, filter, order) == PointsInOrder(pts, order)

\* The points of the map that pass the filter, in iteration order.
Matching(pts, filter, order) ==
    SelectSeq(PointsInOrder(pts, order), LAMBDA p : FilterMatches(filter, p))

\* brute_force_search, lines 432-442: the score against the normalised query.
BruteForceScore(distance, query, point) ==
    CASE distance = "Cosine" -> DotProduct(query, point.vector)
      [] distance = "Euclidean" -> 0 - L2Distance(query, point.vector)
      [] distance = "Dot" -> DotProduct(query, point.vector)
BruteForceScored(distance, query, matching) ==
    [i \in 1..Len(matching) |->
        [point |-> matching[i], score |-> BruteForceScore(distance, query, matching[i])]]

\* brute_force_search: filter, score, keep the `limit` best, sort. Which of
\* several equal scores is kept, and their order, follows the map's
\* iteration order, which is arbitrary.
BruteForceSearch(cfg, pts, query, limit, filter, order) ==
    Truncate(StableSortDesc(BruteForceScored(cfg.distance, query,
                                             Matching(pts, filter, order))), limit)

\* search, lines 510-519: the score of the linear scan, against the query as
\* given. The Dot arm zips the two slices (no length check).
LinearScore(distance, query, point) ==
    CASE distance = "Cosine" -> CosineSimilarity(point.vector, query)
      [] distance = "Euclidean" -> 0 - L2Distance(point.vector, query)
      [] distance = "Dot" ->
            SumSeq([i \in 1..Min(Len(query), Len(point.vector)) |->
                       point.vector[i] * query[i]])
LinearScored(distance, query, matching) ==
    [i \in 1..Len(matching) |->
        [point |-> matching[i], score |-> LinearScore(distance, query, matching[i])]]

\* search, lines 503-528: the linear scan.
LinearScan(cfg, pts, query, limit, filter, order) ==
    Truncate(StableSortDesc(LinearScored(cfg.distance, query,
                                         Matching(pts, filter, order))), limit)

\* search, lines 492-501: the HNSW arm once the index is there. c1 is the
\* collection after the lazy build, r what HnswIndex::search returned.
HnswFiltered(c1, r, filter) ==
    IF r.fault
    THEN [c |-> [c1 EXCEPT !.crashed = TRUE], path |-> "hnsw", out |-> <<>>]
    ELSE [c |-> c1, path |-> "hnsw",
          out |-> SelectSeq(r.res, LAMBDA x : FilterMatches(filter, x.point))]
HnswArm(c1, normalized_query, limit, filter, oobLow) ==
    IF c1.crashed
    THEN [c |-> c1, path |-> "hnsw", out |-> <<>>]
    ELSE HnswFiltered(c1, HnswSearch(Unwrap(c1.hnsw), normalized_query, limit, None, oobLow),
                      filter)

\* Collection::search: [c, path, out]; c changes when the index is built on
\* the way.
SearchF(cfg, c, query, limit, filter, order, layers, oobLow) ==
    IF Cardinality(IdsOf(c.points)) < BRUTE_FORCE_THRESHOLD
    THEN [c |-> c, path |-> "brute_force",
          out |-> BruteForceSearch(cfg, c.points, Normalize(query), limit, filter, order)]
    ELSE IF IsSome(c.hnsw)
    THEN HnswArm(LazyBuildF(c, order, layers, oobLow), Normalize(query), limit, filter, oobLow)
    ELSE [c |-> c, path |-> "linear",
          out |-> LinearScan(cfg, c.points, query, limit, filter, order)]

\* ------------------------------------------------------------ background.rs

\* HnswRebuildJob::execute on the job at the head of the queue (the worker
\* pops it first): build from the captured points, swap, latch, clear flag.
JobDone(c, b) ==
    IF b.fault
    THEN [c EXCEPT !.jobs = Tail(@), !.crashed = TRUE]
    ELSE [c EXCEPT !.jobs = Tail(@), !.hnsw = Some(b.h),
                   !.hnsw_built = TRUE, !.hnsw_rebuilding = FALSE]
RebuildJobExecuteF(c, layers, oobLow) ==
    JobDone(c, BuildIndex(HnswNew, Head(c.jobs).points, layers, oobLow))

\* --------------------------------------------- the calls of one client

\* What the clients of Spec send: integer ids, two directions of dimension
\* 2 (3.0, 4.0 is not unit, 0.8, 0.6 is) and one vector of the wrong length.
SeqIds == {[kind |-> "Integer", val |-> i] : i \in 1..MaxIds}
GoodVectors == {<<30, 40>>, <<8, 6>>}
WrongVector == <<10>>
CallerVersions == {0, 7}
Queries == {<<30, 40>>}
Limits == 1..MaxLimit
HnswConfig ==
    [vector_dim |-> 2, distance |-> "Cosine", use_hnsw |-> TRUE, enable_bm25 |-> FALSE,
     rebuild_threshold |-> HNSW_REBUILD_THRESHOLD]

\* The bounds of the exploration: versions up to MaxVersion, graphs up to
\* MaxNodes nodes, pending buffers up to MaxBatch points.
NodeCount(c) == IF IsSome(c.hnsw) THEN Len(Unwrap(c.hnsw).nodes) ELSE 0
WithinBounds(c) ==
    /\ \A s \in IdStrs : IsSome(c.points[s]) => Unwrap(c.points[s]).version <= MaxVersion
    /\ NodeCount(c) <= MaxNodes
    /\ Len(c.pending_points) <= MaxBatch

\* Every call counts against the length of the history.
CanCall == ~crashed /\ calls < MaxCalls
Tick == calls' = calls + 1

\* The choices a call can depend on, cut down to those it reads: the map's
\* iteration order over the ids present, one select_layer draw per point
\* inserted, and the value of an out-of-arena read only where a neighbour
\* list holds an index that is not in the arena.
OrdersOf(c) == Orders(IdsOf(c.points))
HasStaleIndex(c) ==
    /\ IsSome(c.hnsw)
    /\ LET h == Unwrap(c.hnsw)
       IN  \E i \in 1..Len(h.nodes) : \E l \in 1..Len(h.nodes[i].layers) :
              \E j \in 1..Len(h.nodes[i].layers[l]) :
                 ~ArenaInBounds(h, h.nodes[i].layers[l][j])
OobChoices(c) == IF HasStaleIndex(c) THEN BOOLEAN ELSE {FALSE}
DrawnLayers == 0..Min(MaxDrawnLayer, MAX_LAYERS - 1)
LayerDraws(n) == [1..n -> DrawnLayers]
InsertsOnUpsert(c) == IsSome(c.hnsw) /\ c.hnsw_built /\ ~c.batch_mode
UpsertDraws(c) == IF InsertsOnUpsert(c) THEN DrawnLayers ELSE {0}
Builds(c) == IsSome(c.hnsw) /\ ~c.hnsw_built /\ IdsOf(c.points) # {}
BuildDraws(c) == IF Builds(c) THEN LayerDraws(Cardinality(IdsOf(c.points))) ELSE {<<>>}

DoUpsert(Ids, Versions, Vectors, Payloads) ==
    /\ CanCall
    /\ \E id \in Ids, ver \in Versions, vec \in Vectors, pl \in Payloads,
       layer \in UpsertDraws(Coll), oobLow \in OobChoices(Coll) :
        \E r \in {UpsertF(config, Coll, MkPoint(id, ver, vec, pl), layer, oobLow)} :
            /\ WithinBounds(r.c)
            /\ Install(r.c)
            /\ ret' = [op |-> "upsert", id |-> IdToString(id), dim |-> Len(vec),
                       version |-> ver, result |-> r.result]
            /\ Tick
            /\ UNCHANGED <<workerVars, visitedVars, saves, storageVars, config, pc, loc, observed>>

DoStartBatch ==
    /\ CanCall
    /\ Install(StartBatchF(Coll))
    /\ ret' = [op |-> "start_batch"]
    /\ Tick
    /\ UNCHANGED <<workerVars, visitedVars, saves, storageVars, config, pc, loc, observed>>

DoEndBatch ==
    /\ CanCall
    /\ \E order \in OrdersOf(Coll) :
        /\ Install(EndBatchF(Coll, order))
        /\ ret' = [op |-> "end_batch", result |-> Ok]
        /\ Tick
        /\ UNCHANGED <<workerVars, visitedVars, saves, storageVars, config, pc, loc, observed>>

\* Batches of up to MaxBatch points.
Batches(Ids, Vectors, Payloads) ==
    LET P == {MkPoint(id, 0, vec, pl) : id \in Ids, vec \in Vectors, pl \in Payloads}
    IN  UNION {[1..n -> P] : n \in 0..MaxBatch}

DoBatchUpsert(Ids, Vectors, Payloads) ==
    /\ CanCall
    /\ \E pts \in Batches(Ids, Vectors, Payloads) :
        \E b \in {BatchLoop(config, StartBatchF(Coll), pts)} :
            \E order \in OrdersOf(b.c) :
                \E r \in {BatchUpsertF(config, Coll, pts, order)} :
                    /\ WithinBounds(r.c)
                    /\ Install(r.c)
                    /\ ret' = [op |-> "batch_upsert", n |-> Len(pts), batch |-> pts,
                               result |-> r.result]
                    /\ Tick
                    /\ UNCHANGED <<workerVars, visitedVars, saves, storageVars, config, pc, loc, observed>>

DoBatchUpsertWithPrewarm(Ids, Vectors, Payloads) ==
    /\ CanCall
    /\ \E pts \in Batches(Ids, Vectors, Payloads) :
        \E b \in {BatchLoop(config, StartBatchF(Coll), pts)} :
            \E order \in OrdersOf(b.c), layers \in BuildDraws(b.c), oobLow \in OobChoices(b.c) :
                \E r \in {BatchUpsertWithPrewarmF(config, Coll, pts, TRUE, order, layers, oobLow)} :
                    /\ WithinBounds(r.c)
                    /\ Install(r.c)
                    /\ ret' = [op |-> "batch_upsert_with_prewarm", n |-> Len(pts),
                               result |-> r.result]
                    /\ Tick
                    /\ UNCHANGED <<workerVars, visitedVars, saves, storageVars, config, pc, loc, observed>>

DoDelete ==
    /\ CanCall
    /\ \E s \in IdStrs :
        \E r \in {DeleteF(Coll, s)} :
            /\ Install(r.c)
            /\ ret' = [op |-> "delete", id |-> s, result |-> r.found]
            /\ Tick
            /\ UNCHANGED <<workerVars, visitedVars, saves, storageVars, config, pc, loc, observed>>

DoUpdateVector(Vectors) ==
    /\ CanCall
    /\ \E s \in IdStrs, vec \in Vectors, layer \in DrawnLayers,
       oobLow \in OobChoices(Coll) :
        \E r \in {UpdateVectorF(Coll, s, vec, layer, oobLow)} :
            /\ WithinBounds(r.c)
            /\ Install(r.c)
            /\ ret' = [op |-> "update_vector", id |-> s, result |-> r.found]
            /\ Tick
            /\ UNCHANGED <<workerVars, visitedVars, saves, storageVars, config, pc, loc, observed>>

DoPrewarmIndex ==
    /\ CanCall
    /\ \E order \in OrdersOf(Coll), layers \in BuildDraws(Coll), oobLow \in OobChoices(Coll) :
        \E c \in {PrewarmIndexF(Coll, order, layers, oobLow)} :
            /\ Install(c)
            /\ ret' = [op |-> "prewarm_index", result |-> IF c.crashed THEN Panic ELSE Ok]
            /\ Tick
            /\ UNCHANGED <<workerVars, visitedVars, saves, storageVars, config, pc, loc, observed>>

DoSearch(Filters) ==
    /\ CanCall
    /\ \E query \in Queries, limit \in Limits, filter \in Filters,
       order \in OrdersOf(Coll), layers \in BuildDraws(Coll), oobLow \in OobChoices(Coll) :
        \E r \in {SearchF(config, Coll, query, limit, filter, order, layers, oobLow)} :
            /\ Install(r.c)
            /\ ret' = [op |-> "search", query |-> query, limit |-> limit,
                       filter |-> filter, path |-> r.path, out |-> r.out,
                       panicked |-> r.c.crashed]
            /\ Tick
            /\ UNCHANGED <<workerVars, visitedVars, saves, storageVars, config, pc, loc, observed>>

\* The HnswRebuild worker runs the job at the head of its queue.
DoRebuildJob ==
    /\ CanCall
    /\ jobs # <<>>
    /\ \E layers \in LayerDraws(Len(Head(jobs).points)) :
          /\ Install(RebuildJobExecuteF(Coll, layers, FALSE))
          /\ ret' = [op |-> "rebuild_job"]
    /\ Tick
    /\ UNCHANGED <<workerVars, visitedVars, saves, storageVars, config, pc, loc, observed>>

DoSetPayload(Payloads) ==
    /\ CanCall
    /\ \E s \in IdStrs, pl \in Payloads :
        \E r \in {SetPayloadF(Coll, s, pl)} :
            /\ Install(r.c)
            /\ ret' = [op |-> "set_payload", id |-> s, result |-> r.found]
            /\ Tick
            /\ UNCHANGED <<workerVars, visitedVars, saves, storageVars, config, pc, loc, observed>>

DoOverwritePayload(Payloads) ==
    /\ CanCall
    /\ \E s \in IdStrs, pl \in Payloads :
        \E r \in {OverwritePayloadF(Coll, s, pl)} :
            /\ Install(r.c)
            /\ ret' = [op |-> "overwrite_payload", id |-> s, result |-> r.found]
            /\ Tick
            /\ UNCHANGED <<workerVars, visitedVars, saves, storageVars, config, pc, loc, observed>>

DoDeletePayloadKeys(KeySets) ==
    /\ CanCall
    /\ \E s \in IdStrs, keys \in KeySets :
        \E r \in {DeletePayloadKeysF(Coll, s, keys)} :
            /\ Install(r.c)
            /\ ret' = [op |-> "delete_payload_keys", id |-> s, result |-> r.found]
            /\ Tick
            /\ UNCHANGED <<workerVars, visitedVars, saves, storageVars, config, pc, loc, observed>>

DoClearPayload ==
    /\ CanCall
    /\ \E s \in IdStrs :
        \E r \in {ClearPayloadF(Coll, s)} :
            /\ Install(r.c)
            /\ ret' = [op |-> "clear_payload", id |-> s, result |-> r.found]
            /\ Tick
            /\ UNCHANGED <<workerVars, visitedVars, saves, storageVars, config, pc, loc, observed>>

\* One client and the rebuild worker, on a collection with an HNSW index:
\* the calls that write the point map and the graph.
Init == InitCollection(HnswConfig)

Next ==
    \/ DoUpsert(SeqIds, CallerVersions, {<<30, 40>>, WrongVector}, {None})
    \/ DoStartBatch
    \/ DoEndBatch
    \/ DoBatchUpsert(SeqIds, {<<30, 40>>, WrongVector}, {None})
    \/ DoBatchUpsertWithPrewarm(SeqIds, {<<30, 40>>}, {None})
    \/ DoDelete
    \/ DoPrewarmIndex
    \/ DoRebuildJob

Spec == Init /\ [][Next]_vars

\* One client that loads points, writes single points and searches them.
NextSearch ==
    \/ DoUpsert(SeqIds, {0}, GoodVectors, {None})
    \/ DoBatchUpsertWithPrewarm(SeqIds, {<<30, 40>>}, {None})
    \/ DoDelete
    \/ DoSearch({None})
    \/ DoRebuildJob

SpecSearch == Init /\ [][NextSearch]_vars

\* ------------------------------------------------- payloads and full text

\* Payload objects with one field set.
Field(key) == [dotted |-> FALSE, key |-> key]
ObjectWith(key, leaf) == JObject([k \in Keys |-> IF k = key THEN Some(leaf) ELSE None])
TextAb == <<"a", "b">>
TextAbBa == <<"a", "b", ",", "b", "a">>
TextPayloads ==
    {None, Some(ObjectWith("text", JStr(TextAb))), Some(ObjectWith("text", JStr(TextAbBa))),
     Some(ObjectWith("text", JNum(5)))}
Bm25Config == [HnswConfig EXCEPT !.enable_bm25 = TRUE]

\* One client on a collection with an HNSW index and a BM25 index: points
\* with and without a text, and the calls that edit payloads.
InitPayload == InitCollection(Bm25Config)

NextPayload ==
    \/ DoUpsert(SeqIds, {0}, {<<30, 40>>, WrongVector}, TextPayloads)
    \/ DoStartBatch
    \/ DoBatchUpsert(SeqIds, {<<30, 40>>}, {Some(ObjectWith("text", JStr(TextAb)))})
    \/ DoDelete
    \/ DoPrewarmIndex
    \/ DoSetPayload({ObjectWith("text", JStr(TextAbBa)), JNonObject})
    \/ DoOverwritePayload({ObjectWith("category", JStr(<<"A">>))})
    \/ DoDeletePayloadKeys({{"text"}})
    \/ DoClearPayload

SpecPayload == InitPayload /\ [][NextPayload]_vars

\* ------------------------------------------------------- filtered search

CategoryA == JStr(<<"A">>)
CategoryB == JStr(<<"B">>)
CategoryPayloads ==
    {None, Some(ObjectWith("category", CategoryA)), Some(ObjectWith("category", CategoryB))}
IsA == [op |-> "Equals", field |-> Field("category"), value |-> CategoryA]
Filters ==
    {None, Some(IsA), Some([op |-> "Not", condition |-> IsA]),
     Some([op |-> "Or", conditions |-> <<IsA, [op |-> "Contains",
                                               field |-> Field("category"),
                                               value |-> <<"B">>]>>])}

\* One client that stores points with a category and searches with a
\* filter, on a collection with or without an HNSW index.
InitFilter ==
    \E use_hnsw \in BOOLEAN : InitCollection([HnswConfig EXCEPT !.use_hnsw = use_hnsw])

NextFilter ==
    \/ DoUpsert(SeqIds, {0}, GoodVectors, CategoryPayloads)
    \/ DoDelete
    \/ DoOverwritePayload({ObjectWith("category", CategoryB)})
    \/ DoSearch(Filters)

SpecFilter == InitFilter /\ [][NextFilter]_vars

\* One client that loads a batch with a category, changes payloads by each
\* of the four payload calls and searches with a filter.
NextStored ==
    \/ DoBatchUpsertWithPrewarm(SeqIds, {<<8, 6>>}, {Some(ObjectWith("category", CategoryA))})
    \/ DoUpsert(SeqIds, {0}, {<<8, 6>>}, CategoryPayloads)
    \/ DoSetPayload({ObjectWith("category", CategoryB)})
    \/ DoOverwritePayload({ObjectWith("category", CategoryB)})
    \/ DoDeletePayloadKeys({{"category"}})
    \/ DoClearPayload
    \/ DoSearch(Filters)

SpecStored == InitFilter /\ [][NextStored]_vars

\* --------------------------------------------------- concurrent upserts

\* Largest number of get calls the reader makes.
MaxReads == 2

\* Two clients upsert the same id; each step is one lock scope of
\* Collection::upsert (lines 145-199). A third client calls get.
RaceId == [kind |-> "Integer", val |-> 1]
RacePoint == MkPoint(RaceId, 0, <<30, 40>>, None)
Mine(t) == Unwrap(loc[t])
Goto(t, label) == pc' = [pc EXCEPT ![t] = label]

\* lines 147-154: the dimension check and the id string; no lock held.
UpsertBegin(t) ==
    /\ CanCall
    /\ pc[t] = "idle"
    /\ ~DimensionMismatch(config, RacePoint)
    /\ loc' = [loc EXCEPT ![t] = Some(RacePoint)]
    /\ Goto(t, "read_version")
    /\ Tick
    /\ UNCHANGED <<workerVars, visitedVars, saves, storageVars, config, points, hnsw, bm25, hnsw_built, hnsw_rebuilding, batch_mode,
                   pending_points, jobs, upserts, crashed, ret, observed>>

\* lines 157-168: new_version under the read lock of the primary map.
UpsertReadVersion(t) ==
    /\ pc[t] = "read_version"
    /\ loc' = [loc EXCEPT ![t] =
                  Some([Mine(t) EXCEPT !.version =
                            NewVersion(points, IdToString(Mine(t).id))])]
    /\ Goto(t, "read_batch_mode")
    /\ UNCHANGED <<workerVars, visitedVars, saves, storageVars, config, points, hnsw, bm25, hnsw_built, hnsw_rebuilding, batch_mode,
                   pending_points, jobs, upserts, crashed, ret, calls, observed>>

\* line 170: in_batch under the read lock of batch_mode.
UpsertReadBatchMode(t) ==
    /\ pc[t] = "read_batch_mode"
    /\ Goto(t, IF batch_mode THEN "batch_store" ELSE "hnsw")
    /\ UNCHANGED <<workerVars, visitedVars, saves, storageVars, config, points, hnsw, bm25, hnsw_built, hnsw_rebuilding, batch_mode,
                   pending_points, jobs, upserts, crashed, ret, loc, calls, observed>>

\* line 172: the batch arm stores under the write lock of the primary map.
UpsertBatchStore(t) ==
    /\ pc[t] = "batch_store"
    /\ points' = [points EXCEPT ![IdToString(Mine(t).id)] = Some(Mine(t))]
    /\ upserts' = [upserts EXCEPT ![IdToString(Mine(t).id)] = @ + 1]
    /\ Goto(t, "batch_push")
    /\ UNCHANGED <<workerVars, visitedVars, saves, storageVars, config, hnsw, bm25, hnsw_built, hnsw_rebuilding, batch_mode,
                   pending_points, jobs, crashed, ret, loc, calls, observed>>

\* lines 173-174: the push to the pending buffer, and the return.
UpsertBatchPush(t) ==
    /\ pc[t] = "batch_push"
    /\ pending_points' = Append(pending_points, Mine(t))
    /\ ret' = [op |-> "upsert", id |-> IdToString(Mine(t).id), dim |-> Len(Mine(t).vector),
               version |-> 0, result |-> Ok]
    /\ loc' = [loc EXCEPT ![t] = None]
    /\ Goto(t, "idle")
    /\ UNCHANGED <<workerVars, visitedVars, saves, storageVars, config, points, hnsw, bm25, hnsw_built, hnsw_rebuilding, batch_mode,
                   jobs, upserts, crashed, calls, observed>>

\* lines 177-186: the graph part, under the locks of the latch and the index.
UpsertHnswStep(t) ==
    /\ pc[t] = "hnsw"
    /\ \E layer \in UpsertDraws(Coll), oobLow \in OobChoices(Coll) :
        \E h \in {UpsertHnsw(hnsw, hnsw_built, Mine(t), layer, oobLow)} :
            /\ hnsw' = h.h
            /\ crashed' = h.fault
    /\ Goto(t, "bm25")
    /\ UNCHANGED <<workerVars, visitedVars, saves, storageVars, config, points, bm25, hnsw_built, hnsw_rebuilding, batch_mode,
                   pending_points, jobs, upserts, ret, loc, calls, observed>>

\* lines 188-195: the full-text part, under the lock of the BM25 index.
UpsertBm25Step(t) ==
    /\ pc[t] = "bm25"
    /\ bm25' = UpsertBm25(bm25, Mine(t))
    /\ Goto(t, "store")
    /\ UNCHANGED <<workerVars, visitedVars, saves, storageVars, config, points, hnsw, hnsw_built, hnsw_rebuilding, batch_mode,
                   pending_points, jobs, upserts, crashed, ret, loc, calls, observed>>

\* lines 197-198: the store under the write lock of the primary map, and
\* the return.
UpsertStore(t) ==
    /\ pc[t] = "store"
    /\ points' = [points EXCEPT ![IdToString(Mine(t).id)] = Some(Mine(t))]
    /\ upserts' = [upserts EXCEPT ![IdToString(Mine(t).id)] = @ + 1]
    /\ ret' = [op |-> "upsert", id |-> IdToString(Mine(t).id), dim |-> Len(Mine(t).vector),
               version |-> 0, result |-> Ok]
    /\ loc' = [loc EXCEPT ![t] = None]
    /\ Goto(t, "idle")
    /\ UNCHANGED <<workerVars, visitedVars, saves, storageVars, config, hnsw, bm25, hnsw_built, hnsw_rebuilding, batch_mode,
                   pending_points, jobs, crashed, calls, observed>>

\* Collection::get by the reader: the version it returned is recorded.
ReaderGet ==
    /\ Len(observed) < MaxReads
    /\ IsSome(Get(IdToString(RaceId)))
    /\ observed' = Append(observed, Unwrap(Get(IdToString(RaceId))).version)
    /\ UNCHANGED <<workerVars, visitedVars, saves, storageVars, config, points, hnsw, bm25, hnsw_built, hnsw_rebuilding, batch_mode,
                   pending_points, jobs, upserts, crashed, ret, pc, loc, calls>>

NextRace ==
    \/ \E t \in Threads : UpsertBegin(t)
    \/ \E t \in Threads : UpsertReadVersion(t)
    \/ \E t \in Threads : UpsertReadBatchMode(t)
    \/ \E t \in Threads : UpsertBatchStore(t)
    \/ \E t \in Threads : UpsertBatchPush(t)
    \/ \E t \in Threads : UpsertHnswStep(t)
    \/ \E t \in Threads : UpsertBm25Step(t)
    \/ \E t \in Threads : UpsertStore(t)
    \/ ReaderGet
    \/ DoStartBatch
    \/ DoEndBatch

SpecRace == Init /\ [][NextRace]_vars

\* ------------------------------------------- batches below the rebuild threshold

\* A collection that never holds more points than the rebuild threshold (in
\* the code: at most 10 000 points), so that end_batch submits no job, while
\* it can hold enough points for search to take the HNSW path (1000).
ColdConfig == [HnswConfig EXCEPT !.rebuild_threshold = MaxIds]
InitCold == InitCollection(ColdConfig)

NextCold ==
    \/ DoUpsert(SeqIds, {0}, {<<30, 40>>}, {None})
    \/ DoStartBatch
    \/ DoEndBatch
    \/ DoBatchUpsert(SeqIds, {<<30, 40>>}, {None})
    \/ DoPrewarmIndex
    \/ DoSearch({None})

SpecCold == InitCold /\ [][NextCold]_vars

\* ------------------------------------------------- concurrent end_batch

\* Two clients call Collection::end_batch (lines 208-236) on one collection;
\* each step is one lock scope or one atomic access. The read guard of the
\* primary map taken at line 212 lives to the end of the block (line 232):
\* it is shared between readers and keeps writers out.
PointsReadLocked == \E t \in Threads : pc[t] \in {"eb_store", "eb_submit", "eb_push"}

\* line 209: batch_mode is cleared under its write lock.
EndBatchBegin(t) ==
    /\ CanCall
    /\ pc[t] = "idle"
    /\ batch_mode' = FALSE
    /\ Goto(t, "eb_check")
    /\ Tick
    /\ UNCHANGED <<workerVars, visitedVars, saves, storageVars, config, points, hnsw, bm25, hnsw_built, hnsw_rebuilding,
                   pending_points, jobs, upserts, crashed, ret, loc, observed>>

\* lines 211-217: the read guard, the count, and the load of hnsw_rebuilding.
EndBatchCheck(t) ==
    /\ pc[t] = "eb_check"
    /\ Goto(t, IF SubmitsRebuild(Coll) THEN "eb_store" ELSE "eb_clear")
    /\ UNCHANGED <<workerVars, visitedVars, saves, storageVars, config, points, hnsw, bm25, hnsw_built, hnsw_rebuilding, batch_mode,
                   pending_points, jobs, upserts, crashed, ret, loc, calls, observed>>

\* line 218: the store of true to hnsw_rebuilding.
EndBatchStoreFlag(t) ==
    /\ pc[t] = "eb_store"
    /\ hnsw_rebuilding' = TRUE
    /\ Goto(t, "eb_submit")
    /\ UNCHANGED <<workerVars, visitedVars, saves, storageVars, config, points, hnsw, bm25, hnsw_built, batch_mode,
                   pending_points, jobs, upserts, crashed, ret, loc, calls, observed>>

\* lines 219-230: the points are cloned and the job is submitted; the read
\* guard is dropped at line 232.
EndBatchSubmit(t) ==
    /\ pc[t] = "eb_submit"
    /\ \E order \in OrdersOf(Coll) :
          jobs' = Append(jobs, [points |-> PointsInOrder(points, order)])
    /\ Goto(t, "eb_clear")
    /\ UNCHANGED <<workerVars, visitedVars, saves, storageVars, config, points, hnsw, bm25, hnsw_built, hnsw_rebuilding, batch_mode,
                   pending_points, upserts, crashed, ret, loc, calls, observed>>

\* lines 234-235: the pending buffer is cleared, and the return.
EndBatchClearPending(t) ==
    /\ pc[t] = "eb_clear"
    /\ pending_points' = <<>>
    /\ ret' = [op |-> "end_batch", result |-> Ok]
    /\ Goto(t, "idle")
    /\ UNCHANGED <<workerVars, visitedVars, saves, storageVars, config, points, hnsw, bm25, hnsw_built, hnsw_rebuilding, batch_mode,
                   jobs, upserts, crashed, loc, calls, observed>>

\* An upsert by a third client: its store waits for the read guards.
UpsertUnlessReadLocked ==
    /\ ~PointsReadLocked
    /\ DoUpsert(SeqIds, {0}, {<<30, 40>>}, {None})

NextBatchRace ==
    \/ \E t \in Threads : EndBatchBegin(t)
    \/ \E t \in Threads : EndBatchCheck(t)
    \/ \E t \in Threads : EndBatchStoreFlag(t)
    \/ \E t \in Threads : EndBatchSubmit(t)
    \/ \E t \in Threads : EndBatchClearPending(t)
    \/ UpsertUnlessReadLocked
    \/ DoStartBatch
    \/ DoRebuildJob

SpecBatchRace == Init /\ [][NextBatchRace]_vars

\* ------------------------------------------------------ vector updates

\* Clients that upsert, batch_upsert and update_vector with vectors of the
\* collection's dimension and of another one.
NextVectors ==
    \/ DoUpsert(SeqIds, {0}, {<<30, 40>>, WrongVector}, {None})
    \/ DoBatchUpsert(SeqIds, {<<30, 40>>, WrongVector}, {None})
    \/ DoUpdateVector({<<8, 6>>, WrongVector})
    \/ DoPrewarmIndex

SpecVectors == Init /\ [][NextVectors]_vars

\* ------------------------------------------------------------- manager.rs

\* The calls on a manager count against a history of their own length.
CanCallManager == calls < MaxManagerCalls

\* A collection in the manager's map: its configuration and its state. The
\* Arc a lookup returns is identified by the name of the slot that holds it.
Managed(cfg, c) == [config |-> cfg, c |-> c]

\* create_collection, lines 125-136. [collections, ok].
CreateCollectionF(cols, name, cfg) ==
    IF IsSome(cols[name]) THEN [collections |-> cols, ok |-> FALSE]
    ELSE [collections |-> [cols EXCEPT ![name] = Some(Managed(cfg, CollectionNew(cfg)))],
          ok |-> TRUE]

\* get_collection, lines 139-151: the direct lookup first, then the alias,
\* one level deep. The slot of the collection returned, if any.
GetCollection(cols, als, name) ==
    IF IsSome(cols[name]) THEN Some(name)
    ELSE IF IsSome(als[name]) /\ IsSome(cols[Unwrap(als[name])]) THEN als[name]
    ELSE None

\* collection_exists, lines 171-173.
CollectionExists(cols, name) == IsSome(cols[name])

\* create_alias, lines 177-185. [aliases, result].
CreateAliasF(cols, als, alias_name, collection_name) ==
    IF ~CollectionExists(cols, collection_name)
    THEN [aliases |-> als, result |-> "CollectionNotFound"]
    ELSE [aliases |-> [als EXCEPT ![alias_name] = Some(collection_name)], result |-> "Ok(true)"]

\* rename_alias, lines 194-202. [aliases, result].
RenameAliasF(als, old_alias, new_alias) ==
    IF IsSome(als[old_alias])
    THEN [aliases |-> [[als EXCEPT ![old_alias] = None] EXCEPT ![new_alias] = als[old_alias]],
          result |-> TRUE]
    ELSE [aliases |-> als, result |-> FALSE]

DoCreateCollection(Ns, Configs) ==
    /\ CanCallManager
    /\ \E name \in Ns, cfg \in Configs :
        \E r \in {CreateCollectionF(collections, name, cfg)} :
            /\ collections' = r.collections
            /\ ret' = [op |-> "create_collection", name |-> name, created |-> r.ok]
    /\ Tick
    /\ UNCHANGED <<workerVars, visitedVars, saves, collectionVars, aliases, BGSAVE_IN_PROGRESS, children, saver, disk, pc, loc>>

\* delete_collection, lines 153-162: the alias map is left as it is.
DoDeleteCollection ==
    /\ CanCallManager
    /\ \E name \in Names :
        /\ collections' = [collections EXCEPT ![name] = None]
        /\ ret' = [op |-> "delete_collection", name |-> name,
                   result |-> IsSome(collections[name])]
    /\ Tick
    /\ UNCHANGED <<workerVars, visitedVars, saves, collectionVars, aliases, BGSAVE_IN_PROGRESS, children, saver, disk, pc, loc>>

DoCreateAlias ==
    /\ CanCallManager
    /\ \E alias_name \in Names, collection_name \in Names :
        \E r \in {CreateAliasF(collections, aliases, alias_name, collection_name)} :
            /\ aliases' = r.aliases
            /\ ret' = [op |-> "create_alias", alias |-> alias_name,
                       name |-> collection_name, result |-> r.result, before |-> aliases]
    /\ Tick
    /\ UNCHANGED <<workerVars, visitedVars, saves, collectionVars, collections, BGSAVE_IN_PROGRESS, children, saver, disk,
                   pc, loc>>

\* delete_alias, lines 188-191.
DoDeleteAlias ==
    /\ CanCallManager
    /\ \E alias_name \in Names :
        /\ aliases' = [aliases EXCEPT ![alias_name] = None]
        /\ ret' = [op |-> "delete_alias", alias |-> alias_name,
                   result |-> IsSome(aliases[alias_name])]
    /\ Tick
    /\ UNCHANGED <<workerVars, visitedVars, saves, collectionVars, collections, BGSAVE_IN_PROGRESS, children, saver, disk,
                   pc, loc>>

DoRenameAlias ==
    /\ CanCallManager
    /\ \E old_alias \in Names, new_alias \in Names :
        \E r \in {RenameAliasF(aliases, old_alias, new_alias)} :
            /\ aliases' = r.aliases
            /\ ret' = [op |-> "rename_alias", alias |-> old_alias, name |-> new_alias,
                       result |-> r.result]
    /\ Tick
    /\ UNCHANGED <<workerVars, visitedVars, saves, collectionVars, collections, BGSAVE_IN_PROGRESS, children, saver, disk,
                   pc, loc>>

DoGetCollection ==
    /\ CanCallManager
    /\ \E name \in Names :
        ret' = [op |-> "get_collection", name |-> name,
                result |-> GetCollection(collections, aliases, name)]
    /\ Tick
    /\ UNCHANGED <<workerVars, visitedVars, saves, collectionVars, visitedVars, saves, storageVars, pc, loc>>

NextAlias ==
    \/ DoCreateCollection(Names, {HnswConfig})
    \/ DoDeleteCollection
    \/ DoCreateAlias
    \/ DoDeleteAlias
    \/ DoRenameAlias
    \/ DoGetCollection

SpecAlias == Init /\ [][NextAlias]_vars

\* --------------------------------------------------------- persistence.rs

\* The file system calls of this section succeed: a rename, a write or a
\* read that fails is not part of the explorations.

\* create_snapshot, lines 142-148: PointSnapshot of a point. The id goes out
\* as its canonical string; version and multivector are not written.
PointSnapshotOf(point) ==
    [id |-> IdToString(point.id), vector |-> point.vector, payload |-> point.payload]

\* format!("{:?}", distance): the name of the variant.
DistanceDebug(distance) ==
    CASE distance = "Cosine" -> "Cosine"
      [] distance = "Euclidean" -> "Euclidean"
      [] distance = "Dot" -> "Dot"

\* create_snapshot, lines 151-160: CollectionSnapshot; use_hnsw and
\* enable_bm25 are written as the literals true and false.
CollectionSnapshotOf(name, m) ==
    [name |-> name,
     config |-> [vector_dim |-> m.config.vector_dim,
                 distance |-> DistanceDebug(m.config.distance),
                 use_hnsw |-> TRUE, enable_bm25 |-> FALSE],
     points |-> {PointSnapshotOf(Unwrap(m.c.points[s])) : s \in IdsOf(m.c.points)}]

\* create_snapshot, lines 133-169. The two vectors are filled in the maps'
\* iteration order; no reader depends on it, they are kept as sets. The
\* timestamp is read by nothing.
CreateSnapshot(cols) ==
    [collections |-> {CollectionSnapshotOf(n, Unwrap(cols[n])) :
                          n \in {x \in Names : IsSome(cols[x])}}]

\* bincode::serialize of SnapshotData: the length prefix of the collections
\* vector and the timestamp are 8 bytes each, every collection adds at
\* least 34 bytes (three length prefixes, vector_dim, two booleans). The
\* bytes are kept as their length and the value they decode to.
Serialize(snapshot) ==
    [len |-> 16 + 34 * Cardinality(snapshot.collections), decodes |-> Some(snapshot)]

\* bincode::deserialize: the value, or None for bytes that do not decode.
Deserialize(file) == file.decodes

\* C15 mutant: the bad file is deleted, not kept.
BackupAndRemoveDeletes(d, reason) == [d EXCEPT !.dump = None, !.version = FALSE]

\* backup_and_remove_corrupt_file, lines 227-249: dump.rdb is renamed to
\* dump.<reason>.<ts>.bak and the version marker is removed.
BackupAndRemoveCorruptFile(d, reason) ==
    [d EXCEPT !.baks = @ \cup {[reason |-> reason, file |-> Unwrap(d.dump)]},
              !.dump = None, !.version = FALSE]

\* load_snapshot, lines 177-224. [disk, snapshot].
LoadSnapshotF(d) ==
    IF ~IsSome(d.dump) THEN [disk |-> d, snapshot |-> None]
    ELSE IF ~d.version
    THEN [disk |-> BackupAndRemoveCorruptFile(d, "incomplete"), snapshot |-> None]
    ELSE IF Unwrap(d.dump).len < 16
    THEN [disk |-> BackupAndRemoveCorruptFile(d, "too_small"), snapshot |-> None]
    ELSE IF IsSome(Deserialize(Unwrap(d.dump)))
    THEN [disk |-> d, snapshot |-> Deserialize(Unwrap(d.dump))]
    ELSE [disk |-> BackupAndRemoveCorruptFile(d, "corrupt"), snapshot |-> None]

\* save, lines 266-277: the snapshot goes to dump.tmp, which is renamed to
\* dump.rdb.
WriteDump(d, cols) == [d EXCEPT !.dump = Some(Serialize(CreateSnapshot(cols))), !.tmp = None]
\* save, lines 279-281: the version marker.
SaveF(d, cols) == [WriteDump(d, cols) EXCEPT !.version = TRUE]

\* A write that stops after n bytes: a proper prefix of a serialized
\* snapshot decodes to nothing.
TornLens(file) == {0, 10, file.len - 1}
Torn(n) == [len |-> n, decodes |-> None]
\* C40 mutant: save writes dump.rdb in place.
SaveTornInPlace(d, cols, n) == [d EXCEPT !.dump = Some(Torn(n))]
\* save, line 273, cut short: dump.tmp holds the first n bytes.
SaveTornWrite(d, cols, n) == [d EXCEPT !.tmp = Some(Torn(n))]
\* save, line 273, done, line 276 not yet: dump.tmp holds the snapshot.
SaveWriteTmp(d, cols) == [d EXCEPT !.tmp = Some(Serialize(CreateSnapshot(cols)))]
\* save, lines 264-273: the directory when the process dies before line 276.
DiesBeforeRename(d, cols) ==
    {d, SaveWriteTmp(d, cols)}
        \cup {SaveTornWrite(d, cols, n) : n \in TornLens(Serialize(CreateSnapshot(cols)))}

\* ------------------------------------------- manager.rs: start-up and save

\* StorageManager::new, lines 58-62: the distance of a restored collection.
ParseDistance(str) ==
    CASE str = "Cosine" -> "Cosine"
      [] str = "Euclidean" -> "Euclidean"
      [] str = "Dot" -> "Dot"
      [] OTHER -> "Cosine"

\* StorageManager::new, lines 55-67: the configuration of a restored
\* collection.
RestoredConfig(col_snapshot) ==
    [vector_dim |-> col_snapshot.config.vector_dim,
     distance |-> ParseDistance(col_snapshot.config.distance),
     use_hnsw |-> col_snapshot.config.use_hnsw,
     enable_bm25 |-> col_snapshot.config.enable_bm25,
     rebuild_threshold |-> HNSW_REBUILD_THRESHOLD]

\* StorageManager::new, lines 71-80: every point snapshot is upserted as
\* Point::new(PointId::String(id), vector, payload); a rejected upsert is
\* logged and skipped.
RECURSIVE RestorePoints(_, _, _)
RestoreOne(cfg, c, ps, rest) ==
    RestorePoints(cfg,
                  UpsertF(cfg, c, MkPoint([kind |-> "String", val |-> ps.id], 0,
                                          ps.vector, ps.payload), 0, FALSE).c,
                  rest \ {ps})
RestorePoints(cfg, c, pss) ==
    IF pss = {} THEN c ELSE RestoreOne(cfg, c, CHOOSE ps \in pss : TRUE, pss)

\* StorageManager::new, lines 54-82: one collection of the snapshot.
RestoreCollection(cfg, col_snapshot) ==
    Managed(cfg, RestorePoints(cfg, CollectionNew(cfg), col_snapshot.points))

\* StorageManager::new, lines 50-87: the collections map after start-up.
RestoredCollections(snapshot) ==
    IF ~IsSome(snapshot) THEN [n \in Names |-> None]
    ELSE [n \in Names |->
             IF \E cs \in Unwrap(snapshot).collections : cs.name = n
             THEN Some(RestoreCollection(
                      RestoredConfig(CHOOSE cs \in Unwrap(snapshot).collections : cs.name = n),
                      CHOOSE cs \in Unwrap(snapshot).collections : cs.name = n))
             ELSE None]

\* StorageManager::save, lines 236-240.
DoSave ==
    /\ CanCallManager
    /\ disk' = SaveF(disk, collections)
    /\ saves' = [completed |-> Some(CreateSnapshot(collections)), attempted |-> None]
    /\ ret' = [op |-> "save"]
    /\ Tick
    /\ UNCHANGED <<workerVars, visitedVars, collectionVars, collections, aliases, BGSAVE_IN_PROGRESS, children, saver,
                   pc, loc>>

\* The process dies inside save, after the rename of line 276 and before
\* the marker of line 280; the maps of the manager go with it.
SaveCrash ==
    /\ CanCallManager
    /\ disk' = WriteDump(disk, collections)
    /\ saves' = [saves EXCEPT !.attempted = Some(CreateSnapshot(collections))]
    /\ collections' = [n \in Names |-> None]
    /\ aliases' = [n \in Names |-> None]
    /\ ret' = [op |-> "crash"]
    /\ Tick
    /\ UNCHANGED <<workerVars, visitedVars, collectionVars, BGSAVE_IN_PROGRESS, children, saver, pc, loc>>

\* The process dies inside save before the rename of line 276: before,
\* during or after the write of dump.tmp.
SaveCrashInWrite ==
    /\ CanCallManager
    /\ disk' \in DiesBeforeRename(disk, collections)
    /\ saves' = [saves EXCEPT !.attempted = Some(CreateSnapshot(collections))]
    /\ collections' = [n \in Names |-> None]
    /\ aliases' = [n \in Names |-> None]
    /\ ret' = [op |-> "crash"]
    /\ Tick
    /\ UNCHANGED <<workerVars, visitedVars, collectionVars, BGSAVE_IN_PROGRESS, children, saver, pc, loc>>

\* The process dies inside the write of line 280: dump.version is there,
\* with some or all of its bytes.
SaveCrashInMarker ==
    /\ CanCallManager
    /\ disk' = SaveF(disk, collections)
    /\ saves' = [saves EXCEPT !.attempted = Some(CreateSnapshot(collections))]
    /\ collections' = [n \in Names |-> None]
    /\ aliases' = [n \in Names |-> None]
    /\ ret' = [op |-> "crash"]
    /\ Tick
    /\ UNCHANGED <<workerVars, visitedVars, collectionVars, BGSAVE_IN_PROGRESS, children, saver, pc, loc>>

\* dump.rdb is cut to its first 10 bytes, which decode to nothing.
TruncateDump ==
    /\ CanCallManager
    /\ IsSome(disk.dump)
    /\ disk' = [disk EXCEPT !.dump = Some([len |-> 10, decodes |-> None])]
    /\ ret' = [op |-> "truncate"]
    /\ Tick
    /\ UNCHANGED <<workerVars, visitedVars, saves, collectionVars, collections, aliases, BGSAVE_IN_PROGRESS, children, saver,
                   pc, loc>>

\* Bytes of dump.rdb are damaged in place: same length, no longer decodable.
CorruptDump ==
    /\ CanCallManager
    /\ IsSome(disk.dump)
    /\ disk' = [disk EXCEPT !.dump = Some([Unwrap(@) EXCEPT !.decodes = None])]
    /\ ret' = [op |-> "corrupt"]
    /\ Tick
    /\ UNCHANGED <<workerVars, visitedVars, saves, collectionVars, collections, aliases, BGSAVE_IN_PROGRESS, children, saver,
                   pc, loc>>

\* The manager is dropped and StorageManager::new (lines 29-103) opens the
\* same directory. ret keeps the directory and the maps as they were.
DoReopen ==
    /\ CanCallManager
    /\ \E r \in {LoadSnapshotF(disk)} :
        /\ disk' = r.disk
        /\ collections' = RestoredCollections(r.snapshot)
        /\ saves' = [completed |-> r.snapshot, attempted |-> None]
        /\ ret' = [op |-> "reopen", after_save |-> ret.op = "save", dir |-> disk,
                   saved |-> collections, loaded |-> r.snapshot,
                   completed |-> saves.completed, attempted |-> saves.attempted]
    /\ aliases' = [n \in Names |-> None]
    /\ Tick
    /\ UNCHANGED <<workerVars, visitedVars, collectionVars, BGSAVE_IN_PROGRESS, children, saver, pc, loc>>

NextLoad ==
    \/ DoCreateCollection({"a", "c"}, {HnswConfig})
    \/ DoSave
    \/ SaveCrash
    \/ TruncateDump
    \/ CorruptDump
    \/ DoReopen

SpecLoad == Init /\ [][NextLoad]_vars

\* A process that died is gone until StorageManager::new starts the next.
Alive == ~IsSome(saves.attempted)

\* Collections are created and saved; the process dies at any line of save
\* and is started again on the same directory.
NextCrash ==
    \/ Alive /\ DoCreateCollection({"a", "c"}, {HnswConfig})
    \/ Alive /\ DoSave
    \/ Alive /\ SaveCrashInWrite
    \/ Alive /\ SaveCrash
    \/ Alive /\ SaveCrashInMarker
    \/ DoReopen

SpecCrash == Init /\ [][NextCrash]_vars

\* ------------------------------------------------------ background save

\* C13 mutant: the flag is read as false whatever it holds.
FlagSwapStale(flag) == FALSE

\* BGSAVE_IN_PROGRESS.swap(true, Acquire), line 63: the value the flag held,
\* read and replaced in one atomic step.
FlagSwap(flag) == flag

\* The sequence without its i-th element.
Without(seq, i) == SubSeq(seq, 1, i - 1) \o SubSeq(seq, i + 1, Len(seq))

\* StorageManager::bgsave by client t, up to the swap of line 63: a call that
\* finds the flag set returns Ok(false).
BgsaveSwap(t) ==
    /\ CanCallManager
    /\ pc[t] = "idle"
    /\ \E old \in {FlagSwap(BGSAVE_IN_PROGRESS)} :
        /\ BGSAVE_IN_PROGRESS' = TRUE
        /\ Goto(t, IF old THEN "idle" ELSE "bg_fork")
        /\ ret' = [op |-> "bgsave", by |-> t, result |-> IF old THEN "Ok(false)" ELSE "swapped"]
    /\ Tick
    /\ UNCHANGED <<workerVars, visitedVars, saves, collectionVars, collections, aliases, children, saver, disk, loc>>

\* lines 68-102: fork succeeds. The child holds the memory of the parent
\* as it is now, so the snapshot it will write is the one of this moment;
\* the parent spawns the waiter and returns Ok(true).
BgsaveFork(t) ==
    /\ pc[t] = "bg_fork"
    /\ children' = Append(children, [step |-> "write", snapshot |-> CreateSnapshot(collections)])
    /\ ret' = [op |-> "bgsave", by |-> t, result |-> "Ok(true)"]
    /\ Goto(t, "idle")
    /\ UNCHANGED <<workerVars, visitedVars, saves, collectionVars, collections, aliases, BGSAVE_IN_PROGRESS, saver, disk,
                   loc, calls>>

\* lines 125-128: fork fails; the flag is cleared and the call returns Err.
BgsaveForkFails(t) ==
    /\ pc[t] = "bg_fork"
    /\ BGSAVE_IN_PROGRESS' = FALSE
    /\ ret' = [op |-> "bgsave", by |-> t, result |-> "Err"]
    /\ Goto(t, "idle")
    /\ UNCHANGED <<workerVars, visitedVars, saves, collectionVars, collections, aliases, children, saver, disk, loc, calls>>

\* The child, lines 109-115: the snapshot is serialised into dump.tmp.
ChildWrite(i) ==
    /\ children[i].step = "write"
    /\ disk' = [disk EXCEPT !.tmp = Some(Serialize(children[i].snapshot))]
    /\ children' = [children EXCEPT ![i].step = "rename"]
    /\ UNCHANGED <<workerVars, visitedVars, saves, collectionVars, collections, aliases, BGSAVE_IN_PROGRESS, saver, ret,
                   pc, loc, calls>>

\* The child, line 118: dump.tmp is renamed to dump.rdb. When dump.tmp is
\* gone (a save of the parent renamed it) the `?` returns Err from bgsave
\* inside the child, which does not exit.
ChildRename(i) ==
    /\ children[i].step = "rename"
    /\ disk' = IF IsSome(disk.tmp) THEN [disk EXCEPT !.dump = disk.tmp, !.tmp = None]
                ELSE disk
    /\ children' = [children EXCEPT ![i].step = IF IsSome(disk.tmp) THEN "exit" ELSE "returned"]
    /\ UNCHANGED <<workerVars, visitedVars, saves, collectionVars, collections, aliases, BGSAVE_IN_PROGRESS, saver, ret,
                   pc, loc, calls>>

\* The child, line 123: process::exit(0). No version marker was written.
ChildExit(i) ==
    /\ children[i].step = "exit"
    /\ children' = [children EXCEPT ![i].step = "exited"]
    /\ ret' = [op |-> "child_exit", status |-> 0]
    /\ UNCHANGED <<workerVars, visitedVars, saves, collectionVars, collections, aliases, BGSAVE_IN_PROGRESS, saver, disk,
                   pc, loc, calls>>

\* The waiter thread, lines 76-98: waitpid returns for the child that has
\* exited, then the flag is cleared.
WaiterReap(i) ==
    /\ children[i].step = "exited"
    /\ children' = Without(children, i)
    /\ BGSAVE_IN_PROGRESS' = FALSE
    /\ UNCHANGED <<workerVars, visitedVars, saves, collectionVars, collections, aliases, saver, disk, ret, pc, loc, calls>>

\* The periodic thread, manager.rs lines 112-114: it wakes and loads the
\* flag; it calls bgsave only if the flag was clear.
SaverWake ==
    /\ CanCallManager
    /\ saver = "sleep"
    /\ saver' = IF BGSAVE_IN_PROGRESS THEN "sleep" ELSE "call"
    /\ Tick
    /\ UNCHANGED <<workerVars, visitedVars, saves, collectionVars, collections, aliases, BGSAVE_IN_PROGRESS, children, disk,
                   ret, pc, loc>>

\* The periodic thread inside bgsave: the swap of line 63.
SaverSwap ==
    /\ saver = "call"
    /\ \E old \in {FlagSwap(BGSAVE_IN_PROGRESS)} :
        /\ BGSAVE_IN_PROGRESS' = TRUE
        /\ saver' = IF old THEN "sleep" ELSE "fork"
    /\ UNCHANGED <<workerVars, visitedVars, saves, collectionVars, collections, aliases, children, disk, ret, pc, loc, calls>>

\* The periodic thread inside bgsave: the fork of lines 68-102.
SaverFork ==
    /\ saver = "fork"
    /\ children' = Append(children, [step |-> "write", snapshot |-> CreateSnapshot(collections)])
    /\ saver' = "sleep"
    /\ UNCHANGED <<workerVars, visitedVars, saves, collectionVars, collections, aliases, BGSAVE_IN_PROGRESS, disk, ret,
                   pc, loc, calls>>

NextBgsave ==
    \/ DoCreateCollection({"c"}, {HnswConfig})
    \/ DoSave
    \/ \E t \in Threads : BgsaveSwap(t)
    \/ \E t \in Threads : BgsaveFork(t)
    \/ \E t \in Threads : BgsaveForkFails(t)
    \/ \E i \in DOMAIN children : ChildWrite(i)
    \/ \E i \in DOMAIN children : ChildRename(i)
    \/ \E i \in DOMAIN children : ChildExit(i)
    \/ \E i \in DOMAIN children : WaiterReap(i)
    \/ SaverWake
    \/ SaverSwap
    \/ SaverFork

SpecBgsave == Init /\ [][NextBgsave]_vars

\* The child, lines 109-115: create_snapshot, the serialisation or the write
\* of dump.tmp fails. The `?` returns Err from bgsave inside the child; the
\* child goes back to its caller and never reaches process::exit.
ChildWriteFails(i) ==
    /\ children[i].step = "write"
    /\ children' = [children EXCEPT ![i].step = "returned"]
    /\ UNCHANGED <<workerVars, visitedVars, saves, collectionVars, collections, aliases,
                   BGSAVE_IN_PROGRESS, saver, disk, ret, pc, loc, calls>>

\* The child is killed or exits with a status other than 0 from outside
\* the code of bgsave.
ChildKilled(i) ==
    /\ children[i].step \in {"write", "rename", "exit", "returned"}
    /\ children' = [children EXCEPT ![i].step = "killed"]
    /\ ret' = [op |-> "child_exit", status |-> 1]
    /\ UNCHANGED <<workerVars, visitedVars, saves, collectionVars, collections, aliases,
                   BGSAVE_IN_PROGRESS, saver, disk, pc, loc, calls>>

\* The waiter thread, lines 86-98: waitpid returns a status other than
\* Exited(_, 0); LAST_SAVE_TIME is left alone and the flag is cleared.
WaiterReapKilled(i) ==
    /\ children[i].step = "killed"
    /\ children' = Without(children, i)
    /\ BGSAVE_IN_PROGRESS' = FALSE
    /\ UNCHANGED <<workerVars, visitedVars, saves, collectionVars, collections, aliases, saver, disk,
                   ret, pc, loc, calls>>

\* What a call of bgsave goes on to do without help from outside: the
\* fork returns, the child steps, the waiter returns from waitpid.
ForkReturns == \E t \in Threads : BgsaveFork(t) \/ BgsaveForkFails(t)
ChildRuns ==
    \E i \in DOMAIN children :
        ChildWrite(i) \/ ChildWriteFails(i) \/ ChildRename(i) \/ ChildExit(i)
WaiterRuns == \E i \in DOMAIN children : WaiterReap(i) \/ WaiterReapKilled(i)
SaverRuns == SaverSwap \/ SaverFork

NextBgsaveOutcomes ==
    \/ DoCreateCollection({"c"}, {HnswConfig})
    \/ DoSave
    \/ \E t \in Threads : BgsaveSwap(t)
    \/ ForkReturns
    \/ ChildRuns
    \/ \E i \in DOMAIN children : ChildKilled(i)
    \/ WaiterRuns
    \/ SaverWake
    \/ SaverRuns

SpecBgsaveFair ==
    /\ Init
    /\ [][NextBgsaveOutcomes]_vars
    /\ WF_vars(ForkReturns)
    /\ WF_vars(ChildRuns)
    /\ WF_vars(WaiterRuns)
    /\ WF_vars(SaverRuns)

\* ------------------------------------------------- save and start-up

\* A collection without HNSW, with BM25 and the Euclidean distance.
PlainConfig ==
    [HnswConfig EXCEPT !.distance = "Euclidean", !.use_hnsw = FALSE, !.enable_bm25 = TRUE]

\* The collection of the manager's slot `name` replaced by c.
WithCollection(cols, name, c) ==
    [cols EXCEPT ![name] = Some(Managed(Unwrap(cols[name]).config, c))]

\* get_collection(name), then Collection::upsert on what it returns.
DoUpsertIn(Ids, Vectors, Payloads) ==
    /\ CanCallManager
    /\ \E name \in Names, id \in Ids, vec \in Vectors, pl \in Payloads :
        /\ IsSome(collections[name])
        /\ \E r \in {UpsertF(Unwrap(collections[name]).config, Unwrap(collections[name]).c,
                              MkPoint(id, 0, vec, pl), 0, FALSE)} :
            /\ \A s \in IdStrs :
                  IsSome(r.c.points[s]) => Unwrap(r.c.points[s]).version <= MaxVersion
            /\ collections' = WithCollection(collections, name, r.c)
            /\ ret' = [op |-> "upsert", name |-> name, result |-> r.result]
    /\ Tick
    /\ UNCHANGED <<workerVars, visitedVars, saves, collectionVars, aliases, BGSAVE_IN_PROGRESS, children, saver, disk, pc, loc>>

\* get_collection(name), then Collection::update_vector on what it returns.
DoUpdateVectorIn(Vectors) ==
    /\ CanCallManager
    /\ \E name \in Names, s \in IdStrs, vec \in Vectors, layer \in DrawnLayers :
        /\ IsSome(collections[name])
        /\ \E r \in {UpdateVectorF(Unwrap(collections[name]).c, s, vec, layer, FALSE)} :
            /\ r.found
            /\ collections' = WithCollection(collections, name, r.c)
            /\ ret' = [op |-> "update_vector", name |-> name, result |-> r.found]
    /\ Tick
    /\ UNCHANGED <<workerVars, visitedVars, saves, collectionVars, aliases, BGSAVE_IN_PROGRESS, children, saver, disk, pc, loc>>

NextRestart ==
    \/ DoCreateCollection({"c"}, {HnswConfig, PlainConfig})
    \/ DoUpsertIn(SeqIds, {<<30, 40>>}, {None, Some(ObjectWith("text", JStr(TextAb)))})
    \/ DoUpdateVectorIn({<<8, 6>>, WrongVector})
    \/ DoSave
    \/ DoReopen

SpecRestart == Init /\ [][NextRestart]_vars

\* ------------------------------------------------- collection snapshots

\* MultiVector::new, multivector.rs lines 37-54: None stands for Err.
MultiVectorNew(vectors) ==
    IF vectors = <<>> THEN None
    ELSE IF Len(vectors[1]) = 0 THEN None
    ELSE IF \E i \in 1..Len(vectors) : Len(vectors[i]) # Len(vectors[1]) THEN None
    ELSE Some([vectors |-> vectors, dim |-> Len(vectors[1])])

\* Point::new_multi, point.rs lines 175-187: the vector is the first
\* sub-vector (to_single_vector).
PointNewMulti(id, mv, payload) ==
    [id |-> id, version |-> 0, vector |-> mv.vectors[1], payload |-> payload,
     multivector |-> Some(mv)]

\* The multivectors clients upsert.
MultiVectors == {<<<<30, 40>>, <<8, 6>>>>}

\* create_collection_snapshot, lines 276-285: PointData of a point. The
\* version is not written.
PointDataOf(p) ==
    [id |-> IdToString(p.id), vector |-> p.vector,
     multivector |-> IF IsSome(p.multivector) THEN Some(Unwrap(p.multivector).vectors)
                     ELSE None,
     payload |-> p.payload]

\* create_collection_snapshot, lines 255-292: CollectionSnapshotData, as the
\* gzip-compressed JSON file holds it (points kept as a set, created_at left
\* out: no reader depends on either).
CollectionSnapshotDataOf(name, m) ==
    [name |-> name,
     config |-> [vector_dim |-> m.config.vector_dim,
                 distance |-> DistanceDebug(m.config.distance),
                 use_hnsw |-> m.config.use_hnsw,
                 enable_bm25 |-> m.config.enable_bm25],
     points |-> {PointDataOf(Unwrap(m.c.points[s])) : s \in IdsOf(m.c.points)}]

\* restore_collection_from_data_with_name, line 355: every id string of the
\* model is a decimal number, so parse::<u64>() succeeds.
ParsePointId(id) == [kind |-> "Integer", val |-> id]

\* restore_collection_from_data_with_name, lines 359-373: the point built
\* from a PointData.
PointOfData(pd) ==
    IF IsSome(pd.multivector) /\ IsSome(MultiVectorNew(Unwrap(pd.multivector)))
    THEN PointNewMulti(ParsePointId(pd.id), Unwrap(MultiVectorNew(Unwrap(pd.multivector))),
                       pd.payload)
    ELSE MkPoint(ParsePointId(pd.id), 0, pd.vector, pd.payload)

\* restore_collection_from_data_with_name, lines 354-378: the upserts; a
\* rejected one is logged and skipped.
RECURSIVE RestoreData(_, _, _)
RestoreDataOne(cfg, c, pd, rest) ==
    RestoreData(cfg, UpsertF(cfg, c, PointOfData(pd), 0, FALSE).c, rest \ {pd})
RestoreData(cfg, c, pds) ==
    IF pds = {} THEN c ELSE RestoreDataOne(cfg, c, CHOOSE pd \in pds : TRUE, pds)

\* restore_collection_from_data_with_name, lines 331-386: the collection
\* that replaces the slot.
RestoreCollectionFromData(cfg, data) ==
    Managed(cfg, RestoreData(cfg, CollectionNew(cfg), data.points))

\* get_collection(name), then Collection::upsert of a Point::new_multi.
DoUpsertMultiIn(Ids, Payloads) ==
    /\ CanCallManager
    /\ \E name \in Names, id \in Ids, vs \in MultiVectors, pl \in Payloads :
        /\ IsSome(collections[name])
        /\ \E r \in {UpsertF(Unwrap(collections[name]).config, Unwrap(collections[name]).c,
                              PointNewMulti(id, Unwrap(MultiVectorNew(vs)), pl), 0, FALSE)} :
            /\ \A s \in IdStrs :
                  IsSome(r.c.points[s]) => Unwrap(r.c.points[s]).version <= MaxVersion
            /\ collections' = WithCollection(collections, name, r.c)
            /\ ret' = [op |-> "upsert", name |-> name, result |-> r.result]
    /\ Tick
    /\ UNCHANGED <<workerVars, visitedVars, saves, collectionVars, aliases, BGSAVE_IN_PROGRESS, children, saver, disk, pc, loc>>

\* StorageManager::create_collection_snapshot. taken_from is history: the
\* collection as it was when the file was written; no call reads it.
DoCreateCollectionSnapshot ==
    /\ CanCallManager
    /\ \E name \in Names :
        /\ IsSome(collections[name])
        /\ disk' = [disk EXCEPT !.snapshots = @ \cup
                        {[collection |-> name,
                          data |-> CollectionSnapshotDataOf(name, Unwrap(collections[name])),
                          taken_from |-> Unwrap(collections[name])]}]
        /\ ret' = [op |-> "create_collection_snapshot", name |-> name]
    /\ Tick
    /\ UNCHANGED <<workerVars, visitedVars, saves, collectionVars, collections, aliases, BGSAVE_IN_PROGRESS, children, saver,
                   pc, loc>>

\* StorageManager::recover_from_snapshot, lines 312-317, on one of the
\* snapshot files of the collection.
DoRecoverFromSnapshot ==
    /\ CanCallManager
    /\ \E snap \in disk.snapshots :
        /\ collections' = [collections EXCEPT ![snap.collection] =
                               Some(RestoreCollectionFromData(RestoredConfig(snap.data),
                                                              snap.data))]
        /\ ret' = [op |-> "recover_from_snapshot", name |-> snap.collection,
                   deleted |-> ~IsSome(collections[snap.collection]),
                   original |-> snap.taken_from]
    /\ Tick
    /\ UNCHANGED <<workerVars, visitedVars, saves, collectionVars, aliases, BGSAVE_IN_PROGRESS, children, saver, disk, pc, loc>>

NextSnapshot ==
    \/ DoCreateCollection({"c"}, {HnswConfig, PlainConfig})
    \/ DoUpsertIn(SeqIds, {<<30, 40>>}, {None, Some(ObjectWith("text", JStr(TextAb)))})
    \/ DoUpsertMultiIn(SeqIds, {None})
    \/ DoCreateCollectionSnapshot
    \/ DoDeleteCollection
    \/ DoRecoverFromSnapshot

SpecSnapshot == Init /\ [][NextSnapshot]_vars

\* ------------------------------------------- background.rs: the worker

\* The jobs passed to submit so far: run, in the worker's hands, or queued.
Submitted == Len(executed) + Len(jobs) + (IF IsSome(worker.job) THEN 1 ELSE 0)

\* Condvar::notify_one and notify_all on a condition variable with one
\* possible waiter: a parked worker is made runnable, and nothing is kept
\* for a worker that is not parked.
Notify(w) == IF w.pc = "parked" THEN [w EXCEPT !.pc = "woken"] ELSE w

PopBack(q) == [job |-> q[Len(q)], rest |-> SubSeq(q, 1, Len(q) - 1)]

\* VecDeque::pop_front on a queue that is not empty.
PopFront(q) == [job |-> Head(q), rest |-> Tail(q)]

\* line 86 (and the top of every later round): jobs.lock().
WorkerLock ==
    /\ worker.pc = "lock"
    /\ queue_mutex = "free"
    /\ queue_mutex' = "worker"
    /\ worker' = [worker EXCEPT !.pc = "check"]
    /\ UNCHANGED <<running, executed, visitedVars, saves, storageVars, collectionVars, ret, pc, loc, calls>>

\* line 88: the condition of the wait loop, evaluated under the mutex, on
\* entry ("check") and after each return of wait ("recheck").
WorkerCheck ==
    /\ worker.pc \in {"check", "recheck"}
    /\ worker' = [worker EXCEPT !.pc = IF jobs = <<>> /\ running THEN "wait" ELSE "exit_check"]
    /\ UNCHANGED <<running, queue_mutex, executed, visitedVars, saves, storageVars, collectionVars, ret, pc, loc,
                   calls>>

\* line 89: condvar.wait releases the mutex and parks the thread in one step.
WorkerWait ==
    /\ worker.pc = "wait"
    /\ queue_mutex' = "free"
    /\ worker' = [worker EXCEPT !.pc = "parked"]
    /\ UNCHANGED <<running, executed, visitedVars, saves, storageVars, collectionVars, ret, pc, loc, calls>>

\* line 89: a notified worker leaves wait once it has the mutex again.
WorkerWake ==
    /\ worker.pc = "woken"
    /\ queue_mutex = "free"
    /\ queue_mutex' = "worker"
    /\ worker' = [worker EXCEPT !.pc = "recheck"]
    /\ UNCHANGED <<running, executed, visitedVars, saves, storageVars, collectionVars, ret, pc, loc, calls>>

\* Condvar::wait may return without a notification.
SpuriousWake ==
    /\ worker.pc = "parked"
    /\ worker' = [worker EXCEPT !.pc = "woken"]
    /\ UNCHANGED <<running, queue_mutex, executed, visitedVars, saves, storageVars, collectionVars, ret, pc, loc,
                   calls>>

\* lines 93-95: leave the loop when stopped and drained; the guard is dropped
\* with the thread's frame.
WorkerExitCheck ==
    /\ worker.pc = "exit_check"
    /\ IF ~running /\ jobs = <<>>
       THEN /\ worker' = [worker EXCEPT !.pc = "done"]
            /\ queue_mutex' = "free"
       ELSE /\ worker' = [worker EXCEPT !.pc = "pop"]
            /\ UNCHANGED queue_mutex
    /\ UNCHANGED <<running, executed, visitedVars, saves, storageVars, collectionVars, ret, pc, loc, calls>>

\* lines 98-99: pop_front under the mutex, then drop(jobs_guard); an empty
\* queue ends the inner loop and the round, and the guard with it.
WorkerPop ==
    /\ worker.pc = "pop"
    /\ IF jobs = <<>>
       THEN /\ worker' = [worker EXCEPT !.pc = "lock"]
            /\ UNCHANGED jobs
       ELSE \E p \in {PopFront(jobs)} :
               /\ worker' = [worker EXCEPT !.pc = "build", !.job = Some(p.job)]
               /\ jobs' = p.rest
    /\ queue_mutex' = "free"
    /\ UNCHANGED <<running, executed, visitedVars, saves, storageVars, config, points, hnsw, bm25, hnsw_built,
                   hnsw_rebuilding, batch_mode, pending_points, upserts, crashed, observed,
                   ret, pc, loc, calls>>

\* execute, line 182: HnswIndex::new(16, 3), a local of the job, and the
\* entry of the loop over the captured points.
JobBuild ==
    /\ worker.pc = "build"
    /\ worker' = [worker EXCEPT !.pc = IF Unwrap(worker.job).points = <<>>
                                       THEN "swap" ELSE "insert",
                                !.new_index = Some(HnswNew),
                                !.rest = Unwrap(worker.job).points]
    /\ UNCHANGED <<running, queue_mutex, executed, visitedVars, saves, storageVars, collectionVars, ret, pc, loc,
                   calls>>

JobInsertedInPlace(c, w, r) ==
    [c |-> [c EXCEPT !.hnsw = Some(r.h)],
     w |-> [w EXCEPT !.pc = IF Tail(w.rest) = <<>> THEN "swap" ELSE "insert",
                     !.new_index = Some(r.h), !.rest = Tail(@)]]

\* execute, lines 183-185: one round of the loop, new_index.insert(point);
\* a panic of insert ends the worker thread.
JobInserted(c, w, r) ==
    IF r.fault
    THEN [c |-> [c EXCEPT !.crashed = TRUE], w |-> [w EXCEPT !.pc = "panicked"]]
    ELSE [c |-> c,
          w |-> [w EXCEPT !.pc = IF Tail(w.rest) = <<>> THEN "swap" ELSE "insert",
                          !.new_index = Some(r.h), !.rest = Tail(@)]]
JobInsertF(c, w, layer) ==
    JobInserted(c, w, HnswInsert(Unwrap(w.new_index), Head(w.rest), layer, FALSE))

JobInsert ==
    /\ worker.pc = "insert"
    /\ \E layer \in DrawnLayers :
        \E r \in {JobInsertF(Coll, worker, layer)} :
            /\ Install(r.c)
            /\ worker' = r.w
    /\ UNCHANGED <<running, queue_mutex, executed, visitedVars, saves, storageVars, config, observed, ret, pc, loc,
                   calls>>

\* execute, line 189: *self.hnsw.write() = new_index.
JobSwap ==
    /\ worker.pc = "swap"
    /\ hnsw' = worker.new_index
    /\ worker' = [worker EXCEPT !.pc = "set_built", !.new_index = None]
    /\ UNCHANGED <<running, queue_mutex, executed, visitedVars, saves, storageVars, config, points, bm25,
                   hnsw_built, hnsw_rebuilding, batch_mode, pending_points, jobs, upserts,
                   crashed, observed, ret, pc, loc, calls>>

\* execute, line 190: *self.built_flag.write() = true.
JobSetBuilt ==
    /\ worker.pc = "set_built"
    /\ hnsw_built' = TRUE
    /\ worker' = [worker EXCEPT !.pc = "clear_flag"]
    /\ UNCHANGED <<running, queue_mutex, executed, visitedVars, saves, storageVars, config, points, hnsw, bm25,
                   hnsw_rebuilding, batch_mode, pending_points, jobs, upserts, crashed,
                   observed, ret, pc, loc, calls>>

\* execute, line 191: rebuilding_flag.store(false); execute returns.
JobClearFlag ==
    /\ worker.pc = "clear_flag"
    /\ hnsw_rebuilding' = FALSE
    /\ executed' = Append(executed, Unwrap(worker.job).no)
    /\ worker' = [worker EXCEPT !.pc = "relock", !.job = None]
    /\ UNCHANGED <<running, queue_mutex, visitedVars, saves, storageVars, config, points, hnsw, bm25, hnsw_built,
                   batch_mode, pending_points, jobs, upserts, crashed, observed, ret, pc, loc,
                   calls>>

\* line 101: jobs.lock() after execute.
WorkerRelock ==
    /\ worker.pc = "relock"
    /\ queue_mutex = "free"
    /\ queue_mutex' = "worker"
    /\ worker' = [worker EXCEPT !.pc = "pop"]
    /\ UNCHANGED <<running, executed, visitedVars, saves, storageVars, collectionVars, ret, pc, loc, calls>>

\* BackgroundWorker::submit, line 45, called from end_batch line 230 with the
\* read guard of the primary map held.
SubmitLock(t) ==
    /\ pc[t] = "eb_submit"
    /\ queue_mutex = "free"
    /\ queue_mutex' = t
    /\ Goto(t, "eb_push")
    /\ UNCHANGED <<running, worker, executed, visitedVars, saves, storageVars, collectionVars, ret, loc, calls>>

\* submit, lines 46-48: push_back and notify_one under the mutex, which the
\* return releases. The job carries the points cloned at line 219.
SubmitPush(t) ==
    /\ pc[t] = "eb_push"
    /\ \E order \in OrdersOf(Coll) :
          jobs' = Append(jobs, [points |-> PointsInOrder(points, order), no |-> Submitted + 1])
    /\ worker' = Notify(worker)
    /\ queue_mutex' = "free"
    /\ Goto(t, "eb_clear")
    /\ UNCHANGED <<running, executed, visitedVars, saves, storageVars, config, points, hnsw, bm25, hnsw_built,
                   hnsw_rebuilding, batch_mode, pending_points, upserts, crashed, observed,
                   ret, loc, calls>>

\* BackgroundWorker::shutdown, line 55: the store of false, with no mutex.
\* The exploration has one call of shutdown.
ShutdownStore(t) ==
    /\ pc[t] = "idle"
    /\ running
    /\ running' = FALSE
    /\ Goto(t, "sd_notify")
    /\ UNCHANGED <<queue_mutex, worker, executed, visitedVars, saves, storageVars, collectionVars, ret, loc, calls>>

\* shutdown, line 56: notify_all, with no mutex.
ShutdownNotify(t) ==
    /\ pc[t] = "sd_notify"
    /\ worker' = Notify(worker)
    /\ ret' = [op |-> "shutdown"]
    /\ Goto(t, "idle")
    /\ UNCHANGED <<running, queue_mutex, executed, visitedVars, saves, storageVars, collectionVars, loc, calls>>

\* The steps of the worker thread, and the steps of a call under way.
WorkerProtocolStep ==
    \/ WorkerLock
    \/ WorkerCheck
    \/ WorkerWait
    \/ WorkerWake
    \/ WorkerExitCheck
    \/ WorkerPop
    \/ JobBuild
    \/ JobSwap
    \/ JobSetBuilt
    \/ JobClearFlag
    \/ WorkerRelock
WorkerStep ==
    \/ WorkerProtocolStep
    \/ JobInsert
ClientStep(t) ==
    \/ EndBatchCheck(t)
    \/ EndBatchStoreFlag(t)
    \/ SubmitLock(t)
    \/ SubmitPush(t)
    \/ EndBatchClearPending(t)
    \/ ShutdownNotify(t)

\* Two clients that fill a collection and call end_batch, one call of
\* shutdown, and the worker.
NextWorker ==
    \/ UpsertUnlessReadLocked
    \/ \E t \in Threads : EndBatchBegin(t)
    \/ \E t \in Threads : ShutdownStore(t)
    \/ \E t \in Threads : ClientStep(t)
    \/ WorkerStep
    \/ SpuriousWake

SpecWorker == Init /\ [][NextWorker]_vars

\* The scheduler runs every thread that can take a step: the worker, and a
\* client inside a call; a thread that asks for the queue mutex gets it when
\* the mutex is released again and again. A spurious wake-up may never come.
\* JobInsert is enabled exactly while the worker stands in the loop of
\* execute, and only JobInsert leads out of it, so weak fairness of
\* JobInsert is the last conjunct.
SpecWorkerFair ==
    /\ SpecWorker
    /\ WF_vars(WorkerProtocolStep)
    /\ SF_vars(WorkerLock \/ WorkerWake \/ WorkerRelock)
    /\ \A t \in Threads : WF_vars(ClientStep(t)) /\ SF_vars(SubmitLock(t))
    /\ []<>(worker.pc # "insert")

\* ------------------------------------------------- calls on the BM25Index

TextIndex == Unwrap(bm25)
TextRest == <<workerVars, visitedVars, saves, storageVars, config, points, hnsw, hnsw_built,
              hnsw_rebuilding, batch_mode, pending_points, jobs, upserts, crashed, observed,
              pc, loc>>

DoBm25InsertDoc ==
    /\ CanCall
    /\ \E doc_id \in IdStrs, text \in Texts :
          /\ bm25' = Some(Bm25InsertDoc(TextIndex, doc_id, text))
          /\ ret' = [op |-> "bm25_insert_doc", id |-> doc_id, text |-> text,
                     replaced |-> IsSome(TextIndex.doc_lengths[doc_id])]
    /\ Tick
    /\ UNCHANGED TextRest

DoBm25DeleteDoc ==
    /\ CanCall
    /\ \E doc_id \in IdStrs :
          /\ bm25' = Some(Bm25DeleteDoc(TextIndex, doc_id))
          /\ ret' = [op |-> "bm25_delete_doc", id |-> doc_id,
                     present |-> IsSome(TextIndex.doc_lengths[doc_id])]
    /\ Tick
    /\ UNCHANGED TextRest

NextText ==
    \/ DoBm25InsertDoc
    \/ DoBm25DeleteDoc

SpecText == InitPayload /\ [][NextText]_vars

\* ------------------------------------------------- calls on the HnswIndex

\* What the callers of HnswIndex::insert pass: unit vectors of dimension 2
\* (upsert, the builds) and, from update_vector, a vector of any length.
UnitVectors == {<<8, 6>>, <<6, 8>>}
GraphVectors == UnitVectors \cup {WrongVector}
Graph == Unwrap(hnsw)
GraphRest == <<workerVars, visitedVars, saves, storageVars, config, points, bm25, hnsw_built,
               hnsw_rebuilding, batch_mode, pending_points, jobs, upserts, observed, pc, loc>>

\* The indices whose vector search_layer reads from `entry_point` 0 at
\* `layer` (distance_to_node, lines 250 and 284): the visited ones.
ReadIndices(h, query, ef, layer, oobLow) ==
    SearchLoop(h, query, ef, layer,
               SearchStart(0, DistanceToNode(h, query, 0, oobLow)), oobLow).visited

DoHnswInsert(Vectors) ==
    /\ CanCall
    /\ Len(Graph.nodes) < MaxNodes
    /\ \E id \in SeqIds, vec \in Vectors, layer \in DrawnLayers, oobLow \in OobChoices(Coll) :
          \E r \in {HnswInsert(Graph, MkPoint(id, 0, vec, None), layer, oobLow)} :
             /\ hnsw' = Some(r.h)
             /\ crashed' = r.fault
             /\ ret' = [op |-> "hnsw_insert", id |-> IdToString(id), fault |-> r.fault,
                        nodes |-> Len(Graph.nodes),
                        read |-> IF Graph.nodes = <<>> THEN {}
                                 ELSE ReadIndices(ArenaPush(Graph, MkPoint(id, 0, vec, None)),
                                                  vec, EF_CONSTRUCTION, layer, oobLow)]
    /\ Tick
    /\ UNCHANGED GraphRest

DoHnswRemove ==
    /\ CanCall
    /\ \E point_id \in IdStrs :
          /\ hnsw' = Some(HnswRemove(Graph, point_id))
          /\ ret' = [op |-> "hnsw_remove", id |-> point_id,
                     result |-> IsSome(Graph.point_id_to_index[point_id])]
    /\ Tick
    /\ UNCHANGED <<crashed, GraphRest>>

DoHnswSearch ==
    /\ CanCall
    /\ \E query \in UnitVectors, k \in Limits, oobLow \in OobChoices(Coll) :
          \E r \in {HnswSearch(Graph, query, k, None, oobLow)} :
             /\ crashed' = r.fault
             /\ ret' = [op |-> "hnsw_search", fault |-> r.fault, nodes |-> Len(Graph.nodes),
                        read |-> IF Graph.nodes = <<>> THEN {}
                                 ELSE ReadIndices(Graph, query, SearchEf(k, None), 0, oobLow)]
    /\ Tick
    /\ UNCHANGED <<hnsw, GraphRest>>

NextGraph ==
    \/ DoHnswInsert(GraphVectors)
    \/ DoHnswRemove
    \/ DoHnswSearch

SpecGraph == Init /\ [][NextGraph]_vars

\* ------------------------------------------------------- the VisitedSet

VisitedRest == <<wrapped, saves, workerVars, storageVars, collectionVars, pc, loc, calls>>

DoVisitedInsert ==
    /\ ~crashed
    /\ \E idx \in 0..MaxIndex : \E r \in {VisitedInsert(visited, idx)} :
          /\ visited' = r.v
          /\ members' = members \cup {idx}
          /\ ret' = [op |-> "visited_insert", idx |-> idx, result |-> r.result,
                     was_member |-> idx \in members]
    /\ UNCHANGED VisitedRest

\* `self.generation += 1` at the largest value of the counter wraps to zero
\* in a build without overflow checks and panics in a build with them; the
\* panic leaves the set as it was.
DoVisitedClear ==
    /\ ~crashed
    /\ \/ /\ visited' = VisitedClear(visited)
          /\ members' = {}
          /\ wrapped' = (wrapped \/ visited'.generation < visited.generation)
          /\ ret' = [op |-> "visited_clear"]
          /\ UNCHANGED collectionVars
       \/ /\ visited.generation = GenerationModulus - 1
          /\ crashed' = TRUE
          /\ ret' = [op |-> "visited_clear"]
          /\ UNCHANGED <<visitedVars, saves, config, points, hnsw, bm25, hnsw_built, hnsw_rebuilding,
                         batch_mode, pending_points, jobs, upserts, observed>>
    /\ UNCHANGED <<saves, workerVars, storageVars, pc, loc, calls>>

DoVisitedEnsureCapacity ==
    /\ ~crashed
    /\ \E capacity \in 0..(MaxIndex + 1) :
          /\ visited' = VisitedEnsureCapacity(visited, capacity)
          /\ ret' = [op |-> "visited_ensure_capacity", capacity |-> capacity]
    /\ UNCHANGED <<members, VisitedRest>>

NextVisited ==
    \/ DoVisitedInsert
    \/ DoVisitedClear
    \/ DoVisitedEnsureCapacity

SpecVisited == Init /\ [][NextVisited]_vars

\* ------------------------------------------------- the guards of the calls

\* The guards each call takes and drops, in the order of its code. An
\* instruction takes a read guard ("r") or a write guard ("w") of a lock, or
\* drops the guard of a lock ("u"). "queue" is the mutex of the job queue.
Rd(l) == [k |-> "r", l |-> l]
Wr(l) == [k |-> "w", l |-> l]
Un(l) == [k |-> "u", l |-> l]

\* upsert outside a batch, lines 157-198.
UpsertLocks ==
    <<Rd("points"), Un("points"), Rd("batch_mode"), Un("batch_mode"),
      Rd("hnsw_built"), Un("hnsw_built"), Wr("hnsw"), Un("hnsw"),
      Wr("bm25"), Un("bm25"), Wr("points"), Un("points")>>
\* upsert in a batch, lines 157-174.
UpsertBatchedLocks ==
    <<Rd("points"), Un("points"), Rd("batch_mode"), Un("batch_mode"),
      Wr("points"), Un("points"), Wr("pending_points"), Un("pending_points")>>
\* start_batch, lines 202-204.
StartBatchLocks ==
    <<Wr("batch_mode"), Un("batch_mode"), Wr("pending_points"), Un("pending_points")>>
\* end_batch with a submit, lines 209-235: the read guard of the primary map
\* is held over BackgroundWorker::submit.
EndBatchLocks ==
    <<Wr("batch_mode"), Un("batch_mode"), Rd("points"), Wr("queue"), Un("queue"),
      Un("points"), Wr("pending_points"), Un("pending_points")>>
\* delete, lines 265-276.
DeleteLocks ==
    <<Wr("hnsw"), Un("hnsw"), Wr("bm25"), Un("bm25"), Wr("points"), Un("points")>>
UpdateVectorLocksReversed == <<Wr("hnsw"), Wr("points"), Un("points"), Un("hnsw")>>
\* update_vector, lines 339-353: the graph is written under the write guard
\* of the primary map.
UpdateVectorLocks == <<Wr("points"), Wr("hnsw"), Un("hnsw"), Un("points")>>
\* prewarm_index, lines 400-411.
PrewarmLocks ==
    <<Wr("hnsw_built"), Rd("points"), Wr("hnsw"), Un("hnsw"), Un("points"),
      Un("hnsw_built")>>
\* search on the HNSW path, lines 469-495: the count, the lazy build, the
\* search under the write guard of the graph.
SearchLocks ==
    <<Rd("points"), Un("points"),
      Wr("hnsw_built"), Rd("points"), Wr("hnsw"), Un("hnsw"), Un("points"),
      Un("hnsw_built"),
      Wr("hnsw"), Un("hnsw")>>
\* One round of the worker with a job, background.rs 86-101 and 181-191.
RebuildWorkerLocks ==
    <<Wr("queue"), Un("queue"), Wr("hnsw"), Un("hnsw"),
      Wr("hnsw_built"), Un("hnsw_built"), Wr("queue"), Un("queue")>>

ClientOps ==
    {"upsert", "upsert_batched", "start_batch", "end_batch", "delete", "update_vector",
     "prewarm_index", "search"}
LockProgram(op) ==
    CASE op = "upsert" -> UpsertLocks
      [] op = "upsert_batched" -> UpsertBatchedLocks
      [] op = "start_batch" -> StartBatchLocks
      [] op = "end_batch" -> EndBatchLocks
      [] op = "delete" -> DeleteLocks
      [] op = "update_vector" -> UpdateVectorLocks
      [] op = "prewarm_index" -> PrewarmLocks
      [] op = "search" -> SearchLocks
      [] op = "rebuild_worker" -> RebuildWorkerLocks

\* The threads: two clients and the HnswRebuild worker.
LockActors == Threads \cup {"worker"}
OpsOf(a) == IF a = "worker" THEN {"rebuild_worker"} ELSE ClientOps

\* The guards a thread holds before instruction n of prog.
HeldAt(prog, n) ==
    {[k |-> prog[i].k, l |-> prog[i].l] :
        i \in {i \in 1..(n - 1) :
                  /\ prog[i].k # "u"
                  /\ \A j \in (i + 1)..(n - 1) : ~(prog[j].k = "u" /\ prog[j].l = prog[i].l)}}
Held(a) == IF pc[a] = "idle" THEN {} ELSE HeldAt(LockProgram(pc[a]), Unwrap(loc[a]))
\* The instruction a thread inside a call is about to run.
NextInstr(a) == LockProgram(pc[a])[Unwrap(loc[a])]

\* parking_lot::RwLock and std::sync::Mutex: a write guard excludes every
\* other guard, read guards share.
Conflicts(ins, h) == h.l = ins.l /\ (ins.k = "w" \/ h.k = "w")
Grantable(a, ins) ==
    ins.k = "u" \/ \A b \in LockActors \ {a} : \A h \in Held(b) : ~Conflicts(ins, h)

InitLocks ==
    /\ InitFields(Bm25Config)
    /\ pc = [a \in LockActors |-> "idle"]
    /\ loc = [a \in LockActors |-> None]

\* A thread enters a call.
StartCall(a) ==
    /\ pc[a] = "idle"
    /\ \E op \in OpsOf(a) : pc' = [pc EXCEPT ![a] = op]
    /\ loc' = [loc EXCEPT ![a] = Some(1)]
    /\ UNCHANGED <<workerVars, visitedVars, saves, storageVars, collectionVars, ret, calls>>

\* A thread inside a call takes or drops its next guard; the call returns
\* after the last one.
LockStep(a) ==
    /\ pc[a] # "idle"
    /\ Grantable(a, NextInstr(a))
    /\ IF Unwrap(loc[a]) = Len(LockProgram(pc[a]))
       THEN /\ pc' = [pc EXCEPT ![a] = "idle"]
            /\ loc' = [loc EXCEPT ![a] = None]
       ELSE /\ loc' = [loc EXCEPT ![a] = Some(Unwrap(@) + 1)]
            /\ UNCHANGED pc
    /\ UNCHANGED <<workerVars, visitedVars, saves, storageVars, collectionVars, ret, calls>>

NextLocks ==
    \/ \E a \in LockActors : StartCall(a)
    \/ \E a \in LockActors : LockStep(a)

SpecLocks == InitLocks /\ [][NextLocks]_vars

\* ------------------------------------------------------- graph and primary map

\* The nodes of the graph that carry id string s (indices from 1).
NodesOf(s) ==
    IF IsSome(hnsw)
    THEN {i \in 1..Len(Unwrap(hnsw).nodes) : IdToString(Unwrap(hnsw).nodes[i].point.id) = s}
    ELSE {}
\* One node per id of the primary map and none for any other id.
GraphMatchesPrimary ==
    \A s \in IdStrs : Cardinality(NodesOf(s)) = (IF IsSome(points[s]) THEN 1 ELSE 0)
\* Nothing is under way: no batch open, no rebuild queued or running.
Quiescent == ~batch_mode /\ ~hnsw_rebuilding /\ jobs = <<>>

\* C1: with use_hnsw, the latch up and nothing under way, the ids of the
\* graph's nodes are the ids of the primary map, one node per id.
C1_GraphHoldsExactlyPrimaryIds ==
    (config.use_hnsw /\ hnsw_built /\ ~crashed /\ Quiescent) => GraphMatchesPrimary

\* C2: a stored point's version is the number of successful upserts of its
\* id since the id was last absent, minus one, whatever version the caller
\* passed and whether or not the upserts went through batch mode.
C2_VersionCountsUpserts ==
    \A s \in IdStrs : IsSome(points[s]) => Unwrap(points[s]).version = upserts[s] - 1

\* C2 witness: an id upserted twice, the second time in batch mode with a
\* caller version of 7.
C2_OverwrittenInBatch ==
    /\ batch_mode
    /\ ret.op = "upsert" /\ ret.result.ok /\ ret.version = 7
    /\ upserts[ret.id] = 2
    /\ Unwrap(points[ret.id]).version = 1

\* C5: once delete(id) has returned, the id is in no store: not in the
\* primary map, on no graph node, in no BM25 document.
C5_DeletedIdIsGone ==
    (ret.op = "delete" /\ ~crashed) =>
        /\ points[ret.id] = None
        /\ NodesOf(ret.id) = {}
        /\ (IsSome(bm25) => Unwrap(bm25).doc_lengths[ret.id] = None)

\* C10: after batch_upsert_with_prewarm(points, true) returned Ok on a
\* collection with use_hnsw, the latch is up and every point of the primary
\* map has a node in the graph.
C10_PrewarmedBatchIsIndexed ==
    (ret.op = "batch_upsert_with_prewarm" /\ ret.result.ok /\ config.use_hnsw) =>
        /\ hnsw_built
        /\ \A s \in IdStrs : IsSome(points[s]) => NodesOf(s) # {}

\* C6: a search served by the graph, without filter, on a graph that holds
\* one node for each of N >= k stored points returns exactly k results.
C6_GraphSearchReturnsK ==
    (/\ ret.op = "search" /\ ret.path = "hnsw" /\ ret.filter = None
     /\ ~crashed /\ hnsw_built /\ GraphMatchesPrimary
     /\ Count >= ret.limit) => Len(ret.out) = ret.limit

\* C7: whatever path served it, a search result has at most `limit` entries,
\* no id twice, and scores that do not increase.
C7_ResultBoundedDistinctSorted ==
    ret.op = "search" =>
        /\ Len(ret.out) <= ret.limit
        /\ \A i, j \in 1..Len(ret.out) :
              i < j => /\ IdToString(ret.out[i].point.id) # IdToString(ret.out[j].point.id)
                       /\ ret.out[i].score >= ret.out[j].score

\* C3: the versions successive get calls return for one id never decrease,
\* however the steps of concurrent upserts of that id interleave.
C3_ObservedVersionsNeverDecrease ==
    \A i, j \in 1..Len(observed) : i < j => observed[i] <= observed[j]

\* A step that is a call of upsert, and whether its vector has a wrong length.
IsUpsertStep == ret'.op = "upsert" /\ calls' = calls + 1
WrongDimension == config.vector_dim > 0 /\ ret'.dim # config.vector_dim

StoredMatching(filter) ==
    {s \in IdStrs : IsSome(points[s]) /\ FilterMatches(filter, Unwrap(points[s]))}

IndexedAs(ix, s, tokens) ==
    /\ ix.doc_lengths[s] = Some(Len(tokens))
    /\ \A t \in AllTerms :
          (IF IsSome(ix.inverted_index[t]) THEN Unwrap(ix.inverted_index[t])[s] ELSE 0)
              = TermFreq(tokens, t)
NotIndexed(ix, s) ==
    /\ ix.doc_lengths[s] = None
    /\ \A t \in AllTerms : ~HasPosting(ix, t, s)

\* C9: with enable_bm25, the documents of the BM25 index are the ids of the
\* primary map whose payload has a string `text`, each indexed with that
\* text.
C9_Bm25HoldsCurrentTexts ==
    IsSome(bm25) =>
        \A s \in IdStrs :
            IF IsSome(points[s]) /\ IsSome(TextOf(Unwrap(points[s])))
            THEN IndexedAs(Unwrap(bm25), s, Tokenize(Unwrap(TextOf(Unwrap(points[s])))))
            ELSE NotIndexed(Unwrap(bm25), s)

\* C11: below the rebuild threshold (no job is ever submitted), a search
\* routed to the HNSW outside a batch queries a graph that holds every point
\* of the primary map, the points upserted in a batch included, whether or
\* not the index was built before the batch.
C11_SearchAfterBatchSeesAllPoints ==
    (/\ ret.op = "search" /\ ret.path = "hnsw" /\ ~crashed
     /\ ~batch_mode /\ jobs = <<>> /\ ~hnsw_rebuilding) =>
        \A s \in IdStrs : IsSome(points[s]) => NodesOf(s) # {}

\* C12: under any interleaving of concurrent end_batch calls on a collection
\* above the rebuild threshold, at most one rebuild job of the collection is
\* queued or executing at any time.
C12_AtMostOneRebuildJob == Len(jobs) <= 1

\* C20: with vector_dim > 0, every point of the primary map and every point
\* held by the graph has a vector of length vector_dim, after any sequence of
\* upsert, batch_upsert and update_vector calls.
C20_StoredVectorsHaveConfiguredDim ==
    config.vector_dim > 0 =>
        /\ \A s \in IdStrs :
              IsSome(points[s]) => Len(Unwrap(points[s]).vector) = config.vector_dim
        /\ IsSome(hnsw) =>
              \A i \in 1..Len(Unwrap(hnsw).nodes) :
                  Len(Unwrap(hnsw).nodes[i].point.vector) = config.vector_dim

\* C19: while alias a maps to collection name c, get_collection(a) returns
\* the collection get_collection(c) returns, whatever collections have been
\* created in the meantime, one named a included.
C19_AliasResolvesToItsCollection ==
    \A a \in Names, c \in Names :
        aliases[a] = Some(c) =>
            GetCollection(collections, aliases, a) = GetCollection(collections, aliases, c)

\* The manager holds no collection.
NoCollections == \A n \in Names : collections[n] = None
\* Start-up found dump.rdb and moved it aside under `reason`.
Quarantined(reason) ==
    /\ ret.loaded = None
    /\ disk.dump = None
    /\ ~disk.version
    /\ [reason |-> reason, file |-> Unwrap(ret.dir.dump)] \in disk.baks
    /\ NoCollections

SamePoints(orig, rest) ==
    \A s \in IdStrs :
        IsSome(orig.points[s]) =>
            /\ IsSome(rest.points[s])
            /\ IdToString(Unwrap(rest.points[s]).id) = IdToString(Unwrap(orig.points[s]).id)
            /\ Unwrap(rest.points[s]).vector = Unwrap(orig.points[s]).vector
            /\ Unwrap(rest.points[s]).payload = Unwrap(orig.points[s]).payload
\* The manager was reopened right after a save.
ReopenedAfterSave == ret.op = "reopen" /\ ret.after_save

\* C16: after save() and reopening the directory, every collection is back
\* under its name with the same count, and every original point is there
\* with the same id string, vector and payload.
C16_SnapshotRoundTrip ==
    ReopenedAfterSave =>
        \A n \in Names :
            /\ IsSome(collections[n]) <=> IsSome(ret.saved[n])
            /\ IsSome(ret.saved[n]) =>
                  /\ Cardinality(IdsOf(Unwrap(collections[n]).c.points))
                        = Cardinality(IdsOf(Unwrap(ret.saved[n]).c.points))
                  /\ SamePoints(Unwrap(ret.saved[n]).c, Unwrap(collections[n]).c)

\* C17: after save() and reopening the directory, each restored collection
\* has the vector_dim, distance, use_hnsw and enable_bm25 of the original.
C17_RestoredConfigIsOriginal ==
    ReopenedAfterSave =>
        \A n \in Names :
            (IsSome(ret.saved[n]) /\ IsSome(collections[n])) =>
                /\ Unwrap(collections[n]).config.vector_dim
                      = Unwrap(ret.saved[n]).config.vector_dim
                /\ Unwrap(collections[n]).config.distance
                      = Unwrap(ret.saved[n]).config.distance
                /\ Unwrap(collections[n]).config.use_hnsw
                      = Unwrap(ret.saved[n]).config.use_hnsw
                /\ Unwrap(collections[n]).config.enable_bm25
                      = Unwrap(ret.saved[n]).config.enable_bm25

\* The calls that have won the swap and not forked yet.
Forking == Cardinality({t \in Threads : pc[t] = "bg_fork"}) + (IF saver = "fork" THEN 1 ELSE 0)

C14_BgsaveLeavesLoadableDump ==
    (ret.op = "child_exit" /\ ret.status = 0) =>
        /\ IsSome(disk.dump)
        /\ disk.version
        /\ IsSome(LoadSnapshotF(disk).snapshot)

\* The points of `rest` are those of `orig`: same ids, and for each id the
\* same version, vector, multivector and payload.
SamePointSet(orig, rest) ==
    \A s \in IdStrs :
        /\ IsSome(rest.points[s]) <=> IsSome(orig.points[s])
        /\ IsSome(orig.points[s]) =>
              /\ IdToString(Unwrap(rest.points[s]).id) = IdToString(Unwrap(orig.points[s]).id)
              /\ Unwrap(rest.points[s]).version = Unwrap(orig.points[s]).version
              /\ Unwrap(rest.points[s]).vector = Unwrap(orig.points[s]).vector
              /\ Unwrap(rest.points[s]).multivector = Unwrap(orig.points[s]).multivector
              /\ Unwrap(rest.points[s]).payload = Unwrap(orig.points[s]).payload

\* C18: a collection recovered from its snapshot after delete_collection has
\* the original configuration and the original points: id, version, vector,
\* multivector and payload, up to ordering and the form of the id.
C18_CollectionSnapshotRoundTrip ==
    (ret.op = "recover_from_snapshot" /\ ret.deleted) =>
        /\ Unwrap(collections[ret.name]).config = ret.original.config
        /\ SamePointSet(ret.original.c, Unwrap(collections[ret.name]).c)

\* A step that is a call of batch_upsert; the position of the first element
\* of a batch whose vector has a wrong length (0 when there is none).
IsBatchUpsertStep == ret'.op = "batch_upsert" /\ calls' = calls + 1
WrongAt(pts, i) == config.vector_dim > 0 /\ Len(pts[i].vector) # config.vector_dim
FirstWrong(pts) ==
    IF \E i \in 1..Len(pts) : WrongAt(pts, i)
    THEN CHOOSE i \in 1..Len(pts) : WrongAt(pts, i) /\ \A j \in 1..(i - 1) : ~WrongAt(pts, j)
    ELSE 0
\* The last element with id string s among the first n elements (0: none).
LastWithId(pts, n, s) ==
    IF \E k \in 1..n : IdToString(pts[k].id) = s
    THEN CHOOSE k \in 1..n : IdToString(pts[k].id) = s
                             /\ \A j \in (k + 1)..n : IdToString(pts[j].id) # s
    ELSE 0
StoredAs(slot, point) ==
    /\ IsSome(slot)
    /\ Unwrap(slot).vector = point.vector
    /\ Unwrap(slot).payload = point.payload
PrefixStored(before, after, pts, n) ==
    \A s \in DOMAIN after :
        IF LastWithId(pts, n, s) = 0 THEN after[s] = before[s]
        ELSE StoredAs(after[s], pts[LastWithId(pts, n, s)])

\* C21: a batch_upsert whose element at position i is the first with a wrong
\* dimension returns InvalidDimension for that element; the elements before
\* position i are in the primary map afterwards and no element from position
\* i on has been stored.
C21_BatchStopsAtFirstWrongDimension ==
    [][IsBatchUpsertStep /\ FirstWrong(ret'.batch) > 0 =>
          /\ ret'.result = InvalidDimension(config.vector_dim,
                                Len(ret'.batch[FirstWrong(ret'.batch)].vector))
          /\ PrefixStored(points, points', ret'.batch, FirstWrong(ret'.batch) - 1)]_vars

\* A batch whose second element is the first wrong one has been refused, and
\* its first element is stored.
C21_SecondElementRefused ==
    /\ ret.op = "batch_upsert"
    /\ Len(ret.batch) = 2
    /\ FirstWrong(ret.batch) = 2
    /\ ~ret.result.ok
    /\ StoredAs(points[IdToString(ret.batch[1].id)], ret.batch[1])
    /\ IdToString(ret.batch[2].id) # IdToString(ret.batch[1].id)
    /\ ~IsSome(points[IdToString(ret.batch[2].id)])

\* The primary map differs from `before` in the slot of id string s only.
OnlySlotChanged(before, after, s) ==
    \A o \in DOMAIN after : o # s => after[o] = before[o]

\* C23: while batch_mode is true a successful upsert puts the point into the
\* primary map and appends it to the pending buffer, and leaves the graph,
\* the hnsw_built latch, the BM25 index, batch_mode, the rebuild flag and
\* the job queue as they were.
C23_BatchedUpsertTouchesMapAndBufferOnly ==
    [][(IsUpsertStep /\ batch_mode /\ ret'.result.ok) =>
          /\ IsSome(points'[ret'.id])
          /\ OnlySlotChanged(points, points', ret'.id)
          /\ pending_points' = Append(pending_points, Unwrap(points'[ret'.id]))
          /\ hnsw' = hnsw
          /\ hnsw_built' = hnsw_built
          /\ bm25' = bm25
          /\ batch_mode' = batch_mode
          /\ hnsw_rebuilding' = hnsw_rebuilding
          /\ jobs' = jobs]_vars

\* A point with a text has been upserted in batch mode into a collection
\* whose graph is built and whose BM25 index exists.
C23_TextUpsertedInBatch ==
    /\ ret.op = "upsert" /\ ret.result.ok
    /\ batch_mode
    /\ hnsw_built /\ IsSome(hnsw) /\ IsSome(bm25)
    /\ pending_points # <<>>
    /\ IsSome(TextOf(pending_points[Len(pending_points)]))
    /\ IdToString(pending_points[Len(pending_points)].id) = ret.id

\* C22: in a collection configured with Cosine distance every score that
\* search returns lies in [-1, 1] and is the cosine similarity of the query
\* and the stored vector, whatever the magnitude of the stored vector, on
\* each routing path.
C22_CosineScoresAreSimilarities ==
    (ret.op = "search" /\ config.distance = "Cosine") =>
        \A i \in 1..Len(ret.out) :
            /\ ret.out[i].score >= 0 - ONE2
            /\ ret.out[i].score <= ONE2
            /\ ret.out[i].score = CosineSimilarity(ret.query, ret.out[i].point.vector)

\* The number of the i-th job of the queue when the jobs run so far, the one
\* in the worker's hands, and the queued ones are counted in push order.
InHand == IF IsSome(worker.job) THEN 1 ELSE 0
Executing == worker.pc \in {"build", "insert", "swap", "set_built", "clear_flag"}

\* C26: the jobs of one queue are executed by its worker one at a time, in
\* the order in which submit pushed them, each once; the worker does not
\* hold the queue mutex while it executes a job.
C26_JobsRunInPushOrderOutsideMutex ==
    /\ executed = [i \in 1..Len(executed) |-> i]
    /\ IsSome(worker.job) => Unwrap(worker.job).no = Len(executed) + 1
    /\ \A i \in 1..Len(jobs) : jobs[i].no = Len(executed) + InHand + i
    /\ Executing <=> IsSome(worker.job)
    /\ Executing => queue_mutex # "worker"

\* The first job has been run and the worker is executing the second.
C26_SecondJobAfterFirst ==
    /\ executed = <<1>>
    /\ worker.pc = "build"
    /\ Unwrap(worker.job).no = 2

\* A step of the worker that lies between the push of a job and its swap:
\* the pop and the steps of the build.
JobStepBeforeSwap == worker.pc \in {"pop", "build", "insert"} /\ worker' # worker

\* C24: from the submit of a rebuild job until its swap step the job leaves
\* the HNSW slot, hnsw_built and the primary map as they are, and it builds
\* without the queue mutex, so that a search in that window reads the graph
\* that was in the slot before.
C24_BuildLeavesCollectionAlone ==
    [][JobStepBeforeSwap =>
          /\ hnsw' = hnsw
          /\ hnsw_built' = hnsw_built
          /\ points' = points
          /\ queue_mutex' # "worker"]_vars

\* The job has built its graph of two points and the slot still holds the
\* graph from before.
C24_BuiltNotYetSwapped ==
    /\ worker.pc = "swap"
    /\ IsSome(worker.new_index)
    /\ Len(Unwrap(worker.new_index).nodes) = 2
    /\ hnsw # worker.new_index
    /\ hnsw_rebuilding

\* The graph h_opt holds one node for each point the job captured, and no
\* other node.
CapturedIds(job) == {IdToString(job.points[i].id) : i \in 1..Len(job.points)}
HoldsExactly(h_opt, job) ==
    /\ IsSome(h_opt)
    /\ Len(Unwrap(h_opt).nodes) = Len(job.points)
    /\ {IdToString(Unwrap(h_opt).nodes[i].point.id) : i \in 1..Len(Unwrap(h_opt).nodes)}
          = CapturedIds(job)
JobSwapStep == worker.pc = "swap" /\ worker'.pc = "set_built"
JobFinishStep == worker.pc = "clear_flag" /\ worker'.pc = "relock"
\* A popped job whose graph is not in the slot yet.
NotYetInstalled == worker.pc \in {"build", "insert", "swap"}

\* C25: the job's swap puts a fresh graph of exactly the captured points
\* into the slot; when execute returns hnsw_built is true and
\* hnsw_rebuilding is false; and hnsw_rebuilding is never false while a
\* popped job has not installed its graph yet.
C25_FlagFalseOnlyAfterInstall ==
    [][/\ JobSwapStep => HoldsExactly(hnsw', Unwrap(worker.job))
       /\ JobFinishStep => (hnsw_built' /\ ~hnsw_rebuilding')
       /\ NotYetInstalled' => hnsw_rebuilding']_vars

\* C27: under fair scheduling every job passed to submit is eventually
\* executed, and a hnsw_rebuilding flag that end_batch set to true
\* eventually becomes false again.
C27_EverySubmittedJobRuns ==
    /\ []<>(Len(executed) = Submitted)
    /\ []<>(~hnsw_rebuilding)

\* C28: under fair scheduling, once shutdown has stored running = false the
\* worker thread eventually leaves its loop and terminates.
C28_WorkerTerminatesAfterShutdown ==
    (~running) ~> (worker.pc = "done")

\* The place of each lock in the order primary, HNSW, BM25, and the write
\* guards of the collection's RwLocks that a thread holds.
LockRank(l) == CASE l = "points" -> 1 [] l = "hnsw" -> 2 [] l = "bm25" -> 3 [] OTHER -> 0
Ordered(h) == LockRank(h.l) > 0
WritesHeld(a) == {h \in Held(a) : h.k = "w" /\ h.l # "queue"}
TakesNext(a) == pc[a] # "idle" /\ NextInstr(a).k # "u" /\ Ordered(NextInstr(a))

\* C29: a call takes the locks of the primary map, the graph and the BM25
\* index in that order while it holds one of them, and no call other than
\* search holds more than one write guard at the same time.
C29_OrderedAndOneWriteGuard ==
    \A a \in LockActors :
        /\ TakesNext(a) => \A h \in Held(a) : Ordered(h) => LockRank(h.l) < LockRank(NextInstr(a).l)
        /\ pc[a] # "search" => Cardinality(WritesHeld(a)) <= 1

\* Thread a waits for thread b: a asks for a guard that a guard of b
\* excludes, or a asks for a read guard behind b, a writer that waits itself
\* (parking_lot lets no new reader pass a waiting writer).
Blocked(a) == pc[a] # "idle" /\ ~Grantable(a, NextInstr(a))
WaitsFor(a, b) ==
    /\ a # b
    /\ pc[a] # "idle"
    /\ NextInstr(a).k # "u"
    /\ \/ \E h \in Held(b) : Conflicts(NextInstr(a), h)
       \/ /\ NextInstr(a).k = "r"
          /\ Blocked(b)
          /\ NextInstr(b).k = "w"
          /\ NextInstr(b).l = NextInstr(a).l
WaitCycle ==
    \/ \E a, b \in LockActors : WaitsFor(a, b) /\ WaitsFor(b, a)
    \/ \E a, b, c \in LockActors : WaitsFor(a, b) /\ WaitsFor(b, c) /\ WaitsFor(c, a)

\* C30: no interleaving of the calls of two clients and the worker reaches
\* a cycle of threads that wait for each other's guards, and whenever some
\* thread is inside a call some thread can take its next step.
C30_NoWaitCycle ==
    /\ ~WaitCycle
    /\ (\E a \in LockActors : pc[a] # "idle") =>
          \E a \in LockActors : pc[a] # "idle" /\ Grantable(a, NextInstr(a))

\* A thread that holds a guard waits for a thread that holds a guard and
\* is about to ask for another one.
C30_HoldersContend ==
    \E a, b \in LockActors :
        /\ WaitsFor(a, b)
        /\ Blocked(a)
        /\ Held(a) # {}
        /\ Held(b) # {}
        /\ NextInstr(b).k # "u"

\* C31: the VisitedSet stands for the plain set of the indices inserted
\* since the last clear: contains(i) is true exactly for those, and insert(i)
\* returns true exactly when i was not among them, also after the generation
\* counter has wrapped and for indices beyond the initial capacity.
C31_VisitedSetIsAPlainSet ==
    /\ \A i \in 0..MaxIndex : VisitedContains(visited, i) <=> i \in members
    /\ ret.op = "visited_insert" => (ret.result <=> ~ret.was_member)

\* C31 witness: after a wrap of the counter, a set that has grown beyond
\* its initial capacity holds a word of an older generation with a bit set,
\* next to a word of this generation.
C31_StaleWordAfterWrap ==
    /\ Len(visited.bits) > WordsFor(VisitedCapacity)
    /\ \E w \in 1..Len(visited.bits) :
          visited.generations[w] # visited.generation /\ visited.bits[w] # 0
    /\ \E i \in VisitedCapacity..MaxIndex : i \in members
    /\ ret.op = "visited_insert" /\ ~ret.result
    /\ wrapped

\* The arena, the node list and the id map of the graph agree.
ArenaPacked(h) == Len(h.vectors) = Len(h.nodes) * h.dim
SliceIsVector(h, i) == ArenaInBounds(h, i) /\ GetVector(h, i) = h.nodes[i + 1].point.vector
IdMapped(h, i) ==
    /\ IsSome(h.point_id_to_index[IdToString(h.nodes[i + 1].point.id)])
    /\ Unwrap(h.point_id_to_index[IdToString(h.nodes[i + 1].point.id)]) < Len(h.nodes)
    /\ IdToString(h.nodes[Unwrap(h.point_id_to_index[IdToString(h.nodes[i + 1].point.id)]) + 1].point.id)
          = IdToString(h.nodes[i + 1].point.id)

\* C32: after any sequence of insert and remove calls on the HnswIndex the
\* arena has nodes.len() * dim elements, the slice of node i is the vector
\* of its point, and the id of every node is mapped to a node with that id.
C32_ArenaNodesAndIdMapAgree ==
    ~crashed =>
        /\ ArenaPacked(Graph)
        /\ \A i \in 0..(Len(Graph.nodes) - 1) : SliceIsVector(Graph, i) /\ IdMapped(Graph, i)

\* C33: after any sequence of insert and remove calls, a search or an
\* insert reads no node and no arena slice at an index >= nodes.len() and
\* does not panic.
C33_StaleIndicesAreTolerated ==
    ret.op \in {"hnsw_search", "hnsw_insert"} =>
        /\ ~ret.fault
        /\ \A i \in ret.read : i < ret.nodes

\* The node the id map of the graph points at for a stored id, if any.
MappedNode(s) == Graph.nodes[Unwrap(Graph.point_id_to_index[s]) + 1]
InGraph(s) == IsSome(hnsw) /\ IsSome(points[s]) /\ IsSome(Graph.point_id_to_index[s])

\* C34: the vector the HNSW index holds for a stored point is the
\* L2-normalised copy of the point's primary vector, whichever call put it
\* there.
C34_GraphVectorsAreNormalised ==
    ~crashed =>
        \A s \in IdStrs :
            InGraph(s) => MappedNode(s).point.vector = Normalize(Unwrap(points[s]).vector)

\* C35: every bgsave that set BGSAVE_IN_PROGRESS sets it back to false in
\* the end, whether the fork fails, the child exits with status 0 or with
\* another status, is killed, or fails to serialise or write the snapshot.
C35_FlagIsClearedInTheEnd == BGSAVE_IN_PROGRESS ~> ~BGSAVE_IN_PROGRESS

\* The indexed doc ids, the documents of a term's posting list and the
\* document frequency the index keeps for the term (0 without an entry).
IndexedDocs(ix) == {d \in IdStrs : IsSome(ix.doc_lengths[d])}
PostingDocs(ix, t) == {d \in IdStrs : HasPosting(ix, t, d)}
DocFreq(ix, t) == IF IsSome(ix.term_dfs[t]) THEN Unwrap(ix.term_dfs[t]) ELSE 0

\* C36: after any sequence of insert_doc and delete_doc calls total_docs is
\* the number of indexed doc ids, the document frequency of every term is
\* the number of documents in its posting list, and inserting the (doc_id,
\* text) just inserted once more leaves the index as it is.
C36_CountsMatchPostings ==
    /\ TextIndex.total_docs = Cardinality(IndexedDocs(TextIndex))
    /\ \A t \in AllTerms : DocFreq(TextIndex, t) = Cardinality(PostingDocs(TextIndex, t))
    /\ ret.op = "bm25_insert_doc" => Bm25InsertDoc(TextIndex, ret.id, ret.text) = TextIndex

\* C36 witness: a document was replaced by a text without tokens while
\* another document is indexed under a term the first one had.
C36_ReplacedByEmptyText ==
    /\ ret.op = "bm25_insert_doc" /\ ret.replaced /\ Tokenize(ret.text) = <<>>
    /\ TextIndex.total_docs = 2
    /\ \E t \in AllTerms :
          /\ IsSome(TextIndex.inverted_index[t])
          /\ PostingDocs(TextIndex, t) = IndexedDocs(TextIndex) \ {ret.id}

\* C37: when batch_upsert or batch_upsert_with_prewarm has returned, with
\* Ok or with an error, the collection is not in batch mode and the pending
\* buffer is empty.
C37_BatchModeEndsWithTheCall ==
    ret.op \in {"batch_upsert", "batch_upsert_with_prewarm"} =>
        ~batch_mode /\ pending_points = <<>>

\* The point the primary map holds for the id of a returned point.
StoredFor(p) == points[IdToString(p.id)]
IsCurrent(p, filter) ==
    /\ IsSome(StoredFor(p))
    /\ p.payload = Unwrap(StoredFor(p)).payload
    /\ p.version = Unwrap(StoredFor(p)).version
    /\ FilterMatches(filter, Unwrap(StoredFor(p)))

\* C38: every point a search returns carries the payload and the version
\* the primary map holds for its id at the time of the search, and the
\* filter holds of that stored point, on every path of search.
C38_SearchReturnsCurrentPoints ==
    (ret.op = "search" /\ ~ret.panicked) =>
        \A i \in 1..Len(ret.out) : IsCurrent(ret.out[i].point, ret.filter)

\* StorageManager::list_aliases: the pairs of the alias map.
ListAliases == {a \in Names : IsSome(aliases[a])}

\* C39: every alias list_aliases shows maps to a collection the manager
\* holds, and get_collection of a listed alias is never None.
C39_ListedAliasesResolve ==
    \A a \in ListAliases :
        /\ CollectionExists(collections, Unwrap(aliases[a]))
        /\ IsSome(GetCollection(collections, aliases, a))

\* The start after a death inside save.
AfterCrash == ret.op = "reopen" /\ IsSome(ret.attempted)

\* C40: the start after a death inside save loads the snapshot of the last
\* save that returned or the whole snapshot of the save that died, and
\* loads nothing only if no save had returned; dump.rdb, if still there,
\* decodes.
C40_CrashInSaveKeepsCompletedSave ==
    AfterCrash =>
        /\ ret.loaded \in {ret.completed, ret.attempted}
        /\ ret.loaded = None => ret.completed = None
        /\ IsSome(disk.dump) => IsSome(Deserialize(Unwrap(disk.dump)))

\* A save returned, the next one, of other collections, died after the
\* rename, and the start loaded the snapshot of the one that died.
C40_LoadedNewAfterCrash ==
    /\ AfterCrash
    /\ IsSome(ret.completed)
    /\ ret.attempted # ret.completed
    /\ ret.loaded = ret.attempted

====
